---- MODULE Spec2Model ----
(***************************************************************************)
(* Retrieval subsystem of legalRagBot: FaissVectorStore (upsert, search,   *)
(* delete, save, load), search_similar_clauses and load_documents.         *)
(*                                                                         *)
(* float32 values are represented exactly in fixed point: a unit vector    *)
(* has length UnitScale, a score is an inner product in UnitScale^2 units. *)
(* The raw embeddings used have integer norms, so normalisation is exact.  *)
(***************************************************************************)
EXTENDS Integers, Sequences, FiniteSets, TLC

VARIABLES
    index,          \* FaissVectorStore._index: [built, vecs]
    ids,            \* FaissVectorStore._ids
    metadata,       \* FaissVectorStore._metadata: id -> flattened metadata
    deleted_ids,    \* FaissVectorStore._deleted_ids
    content_hash,   \* FaissVectorStore._content_hash (None while unset)
    disk,           \* the two artifacts at the index path
    op,             \* the call that ran last
    args,           \* its arguments
    ret,            \* its outcome: [kind |-> "return" | "raise", value |-> ...]
    upserted,       \* history: the entries passed to the upsert that built the index
    removed,        \* history: id -> total_vectors when delete tombstoned it
    saved,          \* history: the store as it was when save last completed
    corpus,         \* history: the documents the store's index was built from
    built_by,       \* history: "upsert" or "load" once one has succeeded on the store object
    torn,           \* history: the last save at the path stopped between its two writes
    retry_config,   \* retry_with_backoff: the decorator's arguments
    attempt,        \* retry_with_backoff.wrapper: the loop variable
    last_exception, \* retry_with_backoff.wrapper: last_exception (None while unset)
    wrapper_pc,     \* retry_with_backoff.wrapper: "idle", "try", "sleep", "raise" or "done"
    outcome,        \* retry_with_backoff.wrapper: how the call ended
    invocations,    \* history: the outcome of every invocation of the wrapped function
    sleeps,         \* history: the delay of every time.sleep of the call
    pinecone_request,   \* PineconeVectorStore.search: the arguments of index.query
    pinecone_attempt,   \* PineconeVectorStore.search: the loop variable attempt
    pinecone_pc,        \* PineconeVectorStore.search: "idle", "query", "sleep" or "done"
    pinecone_ret,       \* PineconeVectorStore.search: how the call ended
    pinecone_queries,   \* history: the outcome of every index.query of the call
    pinecone_sleeps,    \* history: the delay of every time.sleep of the call
    threads,        \* the FaissVectorStore.search call of each thread: its position,
                    \* arguments and locals
    clauses,        \* review_contract: the extracted clauses
    clause_analyses,\* review_contract: clause_analyses
    futures,        \* review_contract: clause index -> the future of its review
    review_pc,      \* review_contract: "idle", "collect" or "done"
    collected,      \* review_contract: how many futures the loop of line 159 has consumed
    completions,    \* history: the clause indexes in the order their reviews ended
    db,             \* api._db: 0 for None, else the number of the db object built
    requests,       \* the get_db call of each request: its position and what it holds
    builds          \* history: how many times load_clause_database has been called

(* the vector store, its artifacts and the histories of its calls *)
storeVars == <<index, ids, metadata, deleted_ids, content_hash, disk,
               op, args, ret, upserted, removed, saved, corpus, built_by, torn>>

(* a call through retry_with_backoff *)
retryVars == <<retry_config, attempt, last_exception, wrapper_pc, outcome,
               invocations, sleeps>>

(* a call of PineconeVectorStore.search *)
pineconeVars == <<pinecone_request, pinecone_attempt, pinecone_pc, pinecone_ret,
                  pinecone_queries, pinecone_sleeps>>

(* what the vector store's calls leave alone *)
(* a call of review_contract *)
reviewVars == <<clauses, clause_analyses, futures, review_pc, collected, completions>>

(* the knowledge base behind get_db and the requests asking for it *)
apiVars == <<db, requests, builds>>

auxVars == <<retryVars, pineconeVars, threads, reviewVars, apiVars>>

vars == <<storeVars, auxVars>>

----------------------------------------------------------------------------
(* Bounds of the model *)

MaxK == 2

(* top_k * 5 candidates are fetched when a filter is given *)
OverfetchFactor == 5

----------------------------------------------------------------------------
(* Python values *)

PyNone == "<None>"

(* a content hash value: None, or the 16 hex digits (kept as their preimage) *)
NoHash == [isNone |-> TRUE, hex |-> ""]

EmptyDict == [x \in {} |-> PyNone]

Range(s) == {s[i] : i \in DOMAIN s}

Min(a, b) == IF a <= b THEN a ELSE b

(* the outcome of a call *)
Return(v) == [kind |-> "return", value |-> v]

Raise(e) == [kind |-> "raise", value |-> e]

(* dict.get(key, default) *)
DictGet(d, key, default) == IF key \in DOMAIN d THEN d[key] ELSE default

(* {k: v for k, v in zip(keys, values)}: a later pair overwrites an earlier one *)
ZipDict(keys, values) ==
    LET n == Min(Len(keys), Len(values))
        last(k) == CHOOSE i \in 1..n : keys[i] = k /\ \A j \in (i+1)..n : keys[j] # k
    IN  [k \in {keys[i] : i \in 1..n} |-> values[last(k)]]

(* all the orders in which a set can be listed *)
Orderings(S) ==
    {s \in [1..Cardinality(S) -> S] : \A i, j \in DOMAIN s : i # j => s[i] # s[j]}

----------------------------------------------------------------------------
(* Vectors *)

DocIds == {"a", "b"}

RawEmbeddings == {<<1, 0>>, <<2, 0>>, <<3, 4>>}

RECURSIVE DotUpTo(_, _, _)
DotUpTo(u, v, n) == IF n = 0 THEN 0 ELSE u[n] * v[n] + DotUpTo(u, v, n - 1)

Dot(u, v) == DotUpTo(u, v, Len(u))

Norm(v) == CHOOSE n \in 0..Dot(v, v) : n * n = Dot(v, v)

RECURSIVE SetProduct(_)
SetProduct(S) ==
    IF S = {} THEN 1 ELSE LET x == CHOOSE y \in S : TRUE IN x * SetProduct(S \ {x})

(* the fixed-point length of a unit vector: least common multiple of the norms *)
UnitScale ==
    LET norms == {Norm(v) : v \in RawEmbeddings}
        common(s) == \A n \in norms : s % n = 0
    IN  CHOOSE s \in 1..SetProduct(norms) : common(s) /\ \A t \in 1..(s - 1) : ~common(t)

(* faiss.normalize_L2 on one row; a zero row is left as it is *)
NormalizeL2(v) ==
    IF Norm(v) = 0 THEN v ELSE [i \in DOMAIN v |-> (v[i] * UnitScale) \div Norm(v)]

----------------------------------------------------------------------------
(* Inputs of the store-level specification *)

(* one (id, embedding, metadata) row of an upsert call: two ids with parallel
   embeddings and the same metadata, and a second row for id "a" *)
Entries ==
    { [id |-> "a", embedding |-> <<1, 0>>, meta |-> [type |-> "NDA", risk_level |-> "high"]],
      [id |-> "b", embedding |-> <<2, 0>>, meta |-> [type |-> "NDA", risk_level |-> "high"]],
      [id |-> "a", embedding |-> <<3, 4>>, meta |-> [type |-> "Employment"]] }

(* the sequences over S that use no element twice, the empty one excluded *)
Arrangements(S) ==
    UNION {{s \in [1..n -> S] : \A i, j \in 1..n : i # j => s[i] # s[j]} :
              n \in 1..Cardinality(S)}

(* the argument lists of an upsert call *)
Corpora == Arrangements(Entries)

(* the filters argument: None, or a mapping of metadata key to string value *)
NoFilters == [isNone |-> TRUE, items |-> EmptyDict]

FilterMaps ==
    { EmptyDict,
      [type |-> "NDA", risk_level |-> "high"],
      [type |-> "Employment", risk_level |-> "high"] }

FilterArgs == {NoFilters} \cup {[isNone |-> FALSE, items |-> m] : m \in FilterMaps}

(* query embeddings as the caller passes them: unit vectors *)
Queries == {NormalizeL2(e.embedding) : e \in Entries}

TopKs == 1..MaxK

DeleteLists == UNION {[1..n -> DocIds] : n \in 1..2}

----------------------------------------------------------------------------
(* FaissVectorStore *)

NoIndex == [built |-> FALSE, vecs |-> <<>>]

(* the fields of the store object *)
Store ==
    [index |-> index, ids |-> ids, metadata |-> metadata,
     deleted_ids |-> deleted_ids, content_hash |-> content_hash]

(* __init__ *)
NewStore ==
    [index |-> NoIndex, ids |-> <<>>, metadata |-> EmptyDict,
     deleted_ids |-> {}, content_hash |-> NoHash]

(* total_vectors: index.ntotal, 0 without an index *)
total_vectors(s) == IF s.index.built THEN Len(s.index.vecs) ELSE 0

(* BuildIndex without normalize_L2 *)
BuildIndex_Raw(embeddings) == [built |-> TRUE, vecs |-> embeddings]

(* upsert, lines 75-80: copy, normalize_L2, IndexFlatIP, add *)
BuildIndex(embeddings) ==
    [built |-> TRUE, vecs |-> [i \in DOMAIN embeddings |-> NormalizeL2(embeddings[i])]]

(* upsert: the index, id list and metadata map are replaced; the tombstone
   set and the content hash are not assigned *)
upsert(s, id_list, embeddings, meta_list) ==
    [s EXCEPT !.index = BuildIndex(embeddings),
              !.ids = id_list,
              !.metadata = ZipDict(id_list, meta_list)]

(* Truthy taking every filters argument for no filter *)
Truthy_Never(filters) == FALSE

(* the truth value of the filters argument: None and {} are falsy *)
Truthy(filters) == ~filters.isNone /\ DOMAIN filters.items # {}

(* FetchK fetching 25 candidates for each result wanted *)
FetchK_Wide(top_k, filters) ==
    IF Truthy(filters) THEN top_k * OverfetchFactor * OverfetchFactor ELSE top_k

(* line 97 *)
FetchK(top_k, filters) == IF Truthy(filters) THEN top_k * OverfetchFactor ELSE top_k

MissingScore == 0 - (UnitScale * UnitScale) - 1

(* IndexSearch returning the first fetch_k rows in storage order *)
IndexSearch_Unsorted(idx, q, fetch_k) ==
    LET n == Len(idx.vecs)
    IN  {[j \in 1..fetch_k |->
            IF j <= n THEN [score |-> Dot(q, idx.vecs[j]), idx |-> j - 1]
                      ELSE [score |-> MissingScore, idx |-> 0 - 1]]}

(* IndexFlatIP.search for one query row: fetch_k (score, index) pairs, the best
   inner products first, equal scores in an order faiss does not promise,
   padded with index -1 when the index holds fewer than fetch_k vectors *)
IndexSearch(idx, q, fetch_k) ==
    LET n == Len(idx.vecs)
        m == Min(fetch_k, n)
        score(i) == Dot(q, idx.vecs[i + 1])
        RECURSIVE BestFirst(_, _)
        BestFirst(rows, count) ==
            IF count = 0 THEN {<<>>}
            ELSE UNION {{<<i>> \o rest : rest \in BestFirst(rows \ {i}, count - 1)} :
                          i \in {j \in rows : \A h \in rows : score(j) >= score(h)}}
        orders == BestFirst(0..(n - 1), m)
    IN  {[j \in 1..fetch_k |->
            IF j <= m THEN [score |-> score(s[j]), idx |-> s[j]]
                      ELSE [score |-> MissingScore, idx |-> 0 - 1]] : s \in orders}

(* IsTombstoned without the tombstone check *)
IsTombstoned_Never(s, vec_id) == FALSE

(* line 109 *)
IsTombstoned(s, vec_id) == vec_id \in s.deleted_ids

(* FilterMatches with any() for all() *)
FilterMatches_Any(meta, filters) ==
    \E k \in DOMAIN filters.items : DictGet(meta, k, PyNone) = filters.items[k]

(* line 115: all(meta.get(k) == v for k, v in filters.items()) *)
FilterMatches(meta, filters) ==
    \A k \in DOMAIN filters.items : DictGet(meta, k, PyNone) = filters.items[k]

(* ReachedTopK without the early exit *)
ReachedTopK_Never(results, top_k) == FALSE

(* line 124 *)
ReachedTopK(results, top_k) == Len(results) >= top_k

(* the loop of search, lines 101-125, from candidate i on *)
RECURSIVE ScanCandidates(_, _, _, _, _, _)
ScanCandidates(s, row, i, results, top_k, filters) ==
    IF i > Len(row) THEN results
    ELSE LET c == row[i]
             skip == ScanCandidates(s, row, i + 1, results, top_k, filters)
         IN  IF c.idx = 0 - 1 THEN skip
             ELSE IF c.idx >= Len(s.ids) THEN skip
             ELSE LET vec_id == s.ids[c.idx + 1]
                      meta == DictGet(s.metadata, vec_id, EmptyDict)
                      more == Append(results,
                                     [id |-> vec_id, score |-> c.score, metadata |-> meta])
                  IN  IF IsTombstoned(s, vec_id) THEN skip
                      ELSE IF Truthy(filters) /\ ~FilterMatches(meta, filters) THEN skip
                      ELSE IF ReachedTopK(more, top_k) THEN more
                      ELSE ScanCandidates(s, row, i + 1, more, top_k, filters)

(* search: the result lists the call can return *)
search(s, q, top_k, filters) ==
    IF ~s.index.built THEN {<<>>}
    ELSE {ScanCandidates(s, row, 1, <<>>, top_k, filters) :
            row \in IndexSearch(s.index, q, FetchK(top_k, filters))}

(* the loop of delete, lines 130-135: [deleted_ids, deleted] after id_list[i..] *)
RECURSIVE DeleteFrom(_, _, _, _, _)
DeleteFrom(s, id_list, i, tombstones, deleted) ==
    IF i > Len(id_list) THEN [deleted_ids |-> tombstones, deleted |-> deleted]
    ELSE IF id_list[i] \in DOMAIN s.metadata /\ id_list[i] \notin tombstones
         THEN DeleteFrom(s, id_list, i + 1, tombstones \cup {id_list[i]}, deleted + 1)
         ELSE DeleteFrom(s, id_list, i + 1, tombstones, deleted)

delete(s, id_list) == DeleteFrom(s, id_list, 1, s.deleted_ids, 0)

----------------------------------------------------------------------------
(* Persistence: save and load *)

NoFile == [exists |-> FALSE, content |-> <<>>]

(* the index path: its parent directory and the artifacts path.index and
   path.meta.json *)
EmptyDisk == [dir_exists |-> FALSE, index_file |-> NoFile, meta_file |-> NoFile]

(* save, line 160: os.makedirs(os.path.dirname(path) or ".", exist_ok=True) *)
MakeDirs(d) == [d EXCEPT !.dir_exists = TRUE]

(* a file is created or overwritten; without its directory the write fails
   and leaves nothing *)
WriteFile(d, name, content) ==
    IF d.dir_exists THEN [d EXCEPT ![name] = [exists |-> TRUE, content |-> content]]
    ELSE d

(* json.dump / json.load of a metadata value: a string, or None as null *)
JsonDumpValue(v) ==
    IF v = PyNone THEN [json |-> "null", text |-> ""] ELSE [json |-> "string", text |-> v]

JsonLoadValue(j) == IF j.json = "null" THEN PyNone ELSE j.text

JsonDumpDict(d) == [k \in DOMAIN d |-> JsonDumpValue(d[k])]

JsonLoadDict(j) == [k \in DOMAIN j |-> JsonLoadValue(j[k])]

(* JsonDumpHash writing null for every hash *)
JsonDumpHash_Null(h) == [json |-> "null", text |-> ""]

(* json.dump of content_hash: null for None, else the string *)
JsonDumpHash(h) ==
    IF h.isNone THEN [json |-> "null", text |-> ""] ELSE [json |-> "string", text |-> h.hex]

JsonLoadHash(j) ==
    IF j.json = "null" THEN NoHash ELSE [isNone |-> FALSE, hex |-> j.text]

(* SidecarOf writing an empty deleted_ids list *)
SidecarOf_NoTombstones(s, deleted_list, hash) ==
    [ids |-> s.ids,
     metadata |-> [id \in DOMAIN s.metadata |-> JsonDumpDict(s.metadata[id])],
     deleted_ids |-> <<>>,
     content_hash |-> JsonDumpHash(hash)]

(* save, lines 164-171: the side-car as json.dump writes it; deleted_list is
   list(self._deleted_ids) *)
SidecarOf(s, deleted_list, hash) ==
    [ids |-> s.ids,
     metadata |-> [id \in DOMAIN s.metadata |-> JsonDumpDict(s.metadata[id])],
     deleted_ids |-> deleted_list,
     content_hash |-> JsonDumpHash(hash)]

(* save, lines 160-162: the directory is made and the index written *)
WriteIndex(s, d) == WriteFile(MakeDirs(d), "index_file", s.index.vecs)

(* save, line 170: open(meta_file, "w") has emptied the side-car and json.dump
   has not completed: what is there is not a JSON object *)
TruncatedSidecar == [truncated |-> TRUE]

(* save with an index over the artifacts d: the artifacts it can leave at the
   path (a set iterates in no promised order) *)
save(s, hash, d) ==
    {WriteFile(WriteIndex(s, d), "meta_file", SidecarOf(s, deleted_list, hash)) :
        deleted_list \in Orderings(s.deleted_ids)}

(* vector_store.py imports json, os, time, abc and numpy: the name logging,
   which load uses at lines 203 and 211, is not bound in the module *)
LoggingImported == FALSE

(* load, lines 210-212: the except clause logs and returns False *)
HandlerOutcome == IF LoggingImported THEN Return(FALSE) ELSE Raise("NameError")

(* load, lines 202-204: logs and returns False; an exception raised there is
   caught by the except clause of line 210 *)
IncompleteOutcome == IF LoggingImported THEN Return(FALSE) ELSE HandlerOutcome

RequiredKeys == {"ids", "metadata", "deleted_ids"}

(* load: the store afterwards and the outcome of the call *)
load(s, d) ==
    IF ~d.index_file.exists \/ ~d.meta_file.exists
    THEN [store |-> s, ret |-> Return(FALSE)]
    ELSE LET read == [s EXCEPT !.index = [built |-> TRUE, vecs |-> d.index_file.content]]
             meta == d.meta_file.content
         IN  IF meta = TruncatedSidecar
             THEN [store |-> read, ret |-> HandlerOutcome]
             ELSE IF ~(RequiredKeys \subseteq DOMAIN meta)
             THEN [store |-> read, ret |-> IncompleteOutcome]
             ELSE [store |->
                      [read EXCEPT
                          !.ids = meta.ids,
                          !.metadata = [id \in DOMAIN meta.metadata |->
                                           JsonLoadDict(meta.metadata[id])],
                          !.deleted_ids = Range(meta.deleted_ids),
                          !.content_hash =
                              IF "content_hash" \in DOMAIN meta
                              THEN JsonLoadHash(meta.content_hash) ELSE NoHash],
                   ret |-> Return(TRUE)]

----------------------------------------------------------------------------
(* Embedding gateway and retrieval orchestrator *)

(* get_embeddings' default batch_size *)
DefaultBatchSize == 100

(* the provider's embedding of one text: a fixed, deterministic function *)
EmbedText(text) ==
    LET r == Len(text) % 3
    IN  IF r = 0 THEN <<1, 0>> ELSE IF r = 1 THEN <<2, 0>> ELSE <<3, 4>>

(* provider.embed(texts): one row per text *)
provider_embed(texts) == [i \in DOMAIN texts |-> EmbedText(texts[i])]

(* the loop of get_embeddings, lines 37-44, from 0-based offset i on *)
RECURSIVE EmbedBatches(_, _, _)
EmbedBatches(texts, i, batch_size) ==
    IF i >= Len(texts) THEN <<>>
    ELSE provider_embed(SubSeq(texts, i + 1, Min(i + batch_size, Len(texts))))
            \o EmbedBatches(texts, i + batch_size, batch_size)

(* get_embeddings returning the rows of the first batch only *)
get_embeddings_FirstBatch(texts, batch_size) ==
    provider_embed(SubSeq(texts, 1, Min(batch_size, Len(texts))))

get_embeddings(texts, batch_size) ==
    IF Len(texts) <= batch_size THEN provider_embed(texts)
    ELSE EmbedBatches(texts, 0, batch_size)

(* the slices that the loop of lines 37-41 passes to provider.embed, from
   0-based offset i on *)
RECURSIVE BatchSlices(_, _, _)
BatchSlices(texts, i, batch_size) ==
    IF i >= Len(texts) THEN <<>>
    ELSE <<SubSeq(texts, i + 1, Min(i + batch_size, Len(texts)))>>
            \o BatchSlices(texts, i + batch_size, batch_size)

(* the arguments of the calls of provider.embed that get_embeddings makes *)
provider_calls(texts, batch_size) ==
    IF Len(texts) <= batch_size THEN <<texts>>
    ELSE BatchSlices(texts, 0, batch_size)

MaxTexts == 4

MaxBatch == 3

(* the texts argument: up to MaxTexts texts with embeddings of three kinds *)
TextLists == UNION {[1..n -> {"q", "qu", "que"}] : n \in 0..MaxTexts}

(* the batch_size argument: small sizes and the default *)
BatchSizes == (1..MaxBatch) \cup {DefaultBatchSize}

(* retrieval.py lines 39-41: divide by max(norm, 1e-12); a zero row stays zero *)
NumpyNormalize(v) ==
    IF Norm(v) = 0 THEN v ELSE [i \in DOMAIN v |-> (v[i] * UnitScale) \div Norm(v)]

(* retrieval.py lines 48-61: the document view rebuilt from a hit's metadata *)
ClauseView(hit) ==
    LET meta == hit.metadata
    IN  [id |-> hit.id,
         title |-> DictGet(meta, "title", ""),
         type |-> DictGet(meta, "clause_type", DictGet(meta, "type", "")),
         category |-> DictGet(meta, "category", ""),
         text |-> DictGet(meta, "text", ""),
         risk_level |-> DictGet(meta, "risk_level", ""),
         notes |-> DictGet(meta, "notes", ""),
         source |-> DictGet(meta, "source", ""),
         doc_type |-> DictGet(meta, "doc_type", "clause"),
         jurisdiction |-> DictGet(meta, "jurisdiction", ""),
         citation |-> DictGet(meta, "citation", ""),
         position |-> DictGet(meta, "position", "")]

(* retrieval.py lines 45-65 *)
BuildResults(store_results) ==
    [i \in DOMAIN store_results |->
        [clause |-> ClauseView(store_results[i]), score |-> store_results[i].score]]

(* search_similar_clauses: the result lists the call can return *)
search_similar_clauses(s, query, top_k, filters) ==
    LET query_embedding == NumpyNormalize(get_embeddings(<<query>>, DefaultBatchSize)[1])
    IN  {BuildResults(hits) : hits \in search(s, query_embedding, top_k, filters)}

QueryTexts == {"q", "qu"}

----------------------------------------------------------------------------
(* load_documents, with an index_path and the FAISS backend *)

(* the fingerprint covers d["text"][:64] *)
PrefixLen == 64

(* text[:n] *)
Prefix(text, n) == SubSeq(text, 1, Min(n, Len(text)))

(* "|".join(parts) from part i on *)
RECURSIVE JoinFrom(_, _)
JoinFrom(parts, i) ==
    IF i > Len(parts) THEN ""
    ELSE IF i = Len(parts) THEN parts[i]
    ELSE parts[i] \o "|" \o JoinFrom(parts, i + 1)

(* the string that is hashed, line 114 *)
FingerprintInput(documents) ==
    JoinFrom([i \in DOMAIN documents |->
                 documents[i].doc_id \o ":" \o Prefix(documents[i].text, PrefixLen)], 1)

(* lines 113-115: sha256(...).hexdigest()[:16]; the digest is kept as its
   preimage, that is, different inputs are taken to have different digests *)
ContentHash(documents) == [isNone |-> FALSE, hex |-> FingerprintInput(documents)]

(* HashMatches accepting any stored hash *)
HashMatches_Always(stored_hash, computed) == TRUE

(* line 121 *)
HashMatches(stored_hash, computed) == stored_hash = computed

(* lines 139-142 *)
EmbeddingTexts(documents) ==
    [i \in DOMAIN documents |-> documents[i].title \o ": " \o documents[i].text]

(* lines 152-165: the flattened metadata of one document *)
FlattenMetadata(doc) ==
    LET base == [title |-> doc.title, text |-> doc.text,
                 source |-> doc.source, doc_type |-> doc.doc_type]
        given == {k \in DOMAIN doc.metadata : doc.metadata[k] # PyNone}
        flat == [k \in DOMAIN base \cup given |->
                    IF k \in given THEN doc.metadata[k] ELSE base[k]]
    IN  IF "clause_type" \in DOMAIN flat
        THEN [k \in DOMAIN flat \cup {"type"} |->
                 IF k = "type" THEN flat["clause_type"] ELSE flat[k]]
        ELSE flat

(* lines 145-167: embed every document and upsert into s *)
Rebuild(s, documents) ==
    upsert(s,
           [i \in DOMAIN documents |-> documents[i].doc_id],
           get_embeddings(EmbeddingTexts(documents), DefaultBatchSize),
           [i \in DOMAIN documents |-> FlattenMetadata(documents[i])])

(* load_documents(documents, index_path=path) over the artifacts d: the outcome,
   the store it returns, the artifacts it can leave, and what it did.
   validate_document only logs and is left out. *)
load_documents(documents, d) ==
    LET computed == ContentHash(documents)
        out == load(NewStore, d)
        loaded == out.ret.kind = "return" /\ out.ret.value
        facts == [loaded |-> loaded,
                  stored_hash |-> out.store.content_hash,
                  stored_total |-> total_vectors(out.store)]
    IN  IF out.ret.kind = "raise"
        THEN [ret |-> out.ret, store |-> out.store, disks |-> {d}, saved |-> FALSE,
              info |-> [reused |-> FALSE, embedded |-> 0] @@ facts]
        ELSE IF /\ loaded
                /\ total_vectors(out.store) = Len(documents)
                /\ HashMatches(out.store.content_hash, computed)
        THEN [ret |-> Return("db"), store |-> out.store, disks |-> {d}, saved |-> FALSE,
              info |-> [reused |-> TRUE, embedded |-> 0] @@ facts]
        ELSE LET built == Rebuild(out.store, documents)
             IN  [ret |-> Return("db"), store |-> built,
                  disks |-> save(built, computed, d), saved |-> TRUE,
                  info |-> [reused |-> FALSE, embedded |-> Len(documents)] @@ facts]

RECURSIVE Repeat(_, _)
Repeat(ch, n) == IF n = 0 THEN "" ELSE ch \o Repeat(ch, n - 1)

(* a document whose text is one character longer than the fingerprinted prefix *)
BaseDocument ==
    [doc_id |-> "a", source |-> "clauses_json", doc_type |-> "clause",
     title |-> "T", text |-> Repeat("x", PrefixLen) \o "a",
     metadata |-> [clause_type |-> "NDA", risk_level |-> "high"]]

(* the fields in which doc differs from BaseDocument *)
EditedFields(doc) == {k \in DOMAIN doc : doc[k] # BaseDocument[k]}

(* BaseDocument and its edits in one field: another id, another title, a text
   changed in its first or in its last character, another metadata value *)
Documents ==
    {doc \in [doc_id : {"a", "b"},
              source : {"clauses_json"},
              doc_type : {"clause"},
              title : {"T", "T2"},
              text : {BaseDocument.text,
                      "y" \o Repeat("x", PrefixLen - 1) \o "a",
                      Repeat("x", PrefixLen) \o "b"},
              metadata : {BaseDocument.metadata,
                          [clause_type |-> "NDA", risk_level |-> PyNone]}] :
        Cardinality(EditedFields(doc)) <= 1}

(* the corpora passed to load_documents: one document, or BaseDocument and a
   document with another doc_id in either order *)
DocumentLists ==
    {<<doc>> : doc \in Documents}
        \cup {<<BaseDocument, doc>> : doc \in {x \in Documents : x.doc_id # BaseDocument.doc_id}}
        \cup {<<doc, BaseDocument>> : doc \in {x \in Documents : x.doc_id # BaseDocument.doc_id}}

----------------------------------------------------------------------------
(* retry_with_backoff *)

MaxRetries == 3

(* max_retries: the number of retries, not counting the first call *)
RetryCounts == 0..MaxRetries

(* delays in tenths of a second *)
BaseDelays == {5, 10}

MaxDelays == {10, 30}

(* the exception types the wrapped function raises *)
ExceptionTypes == {"ValueError", "TypeError"}

(* retryable_exceptions: the default (Exception,) catches both types *)
RetryableSets == {{"ValueError"}, {"ValueError", "TypeError"}}

RetryConfigs ==
    [max_retries : RetryCounts, base_delay : BaseDelays, max_delay : MaxDelays,
     retryable_exceptions : RetryableSets]

NoRetryConfig ==
    [max_retries |-> 0, base_delay |-> 10, max_delay |-> 10,
     retryable_exceptions |-> {}]

RECURSIVE Pow2(_)
Pow2(n) == IF n = 0 THEN 1 ELSE 2 * Pow2(n - 1)

(* Delay without the cap *)
Delay_Uncapped(config, i) == config.base_delay * Pow2(i)

(* line 40: min(base_delay * (2 ** attempt), max_delay) *)
Delay(config, i) == Min(config.base_delay * Pow2(i), config.max_delay)

(* line 39: attempt < max_retries *)
ShouldSleep(config, i) == i < config.max_retries

(* LoopEnds one attempt late *)
LoopEnds_Late(config, i) == i + 1 >= config.max_retries + 2

(* line 35: attempt was the last value of range(max_retries + 1) *)
LoopEnds(config, i) == i + 1 >= config.max_retries + 1

(* last_exception = None *)
NoException == [type |-> "NoneType", raised_by |-> 0]

(* the exception object that invocation number n raises *)
ExceptionObject(type, n) == [type |-> type, raised_by |-> n]

(* line 37: except retryable_exceptions *)
IsRetryable(config, e) == e.type \in config.retryable_exceptions

----------------------------------------------------------------------------
(* PineconeVectorStore.search *)

(* line 297: for attempt in range(2) *)
QueryAttempts == 2

(* line 309: time.sleep(2) *)
QueryRetryDelay == 2

(* lines 288-292: a truthy filters argument becomes {k: {"$eq": v}} *)
PineconeFilter(filters) ==
    IF Truthy(filters)
    THEN [isNone |-> FALSE,
          items |-> [k \in DOMAIN filters.items |-> [eq |-> filters.items[k]]]]
    ELSE [isNone |-> TRUE, items |-> EmptyDict]

(* lines 299-304: the arguments of index.query *)
QueryRequest(q, top_k, filters) ==
    [vector |-> q, top_k |-> top_k, filter |-> PineconeFilter(filters),
     include_metadata |-> TRUE]

NoRequest == QueryRequest(<<0, 0>>, 0, NoFilters)

(* what the service can answer: a match with metadata, one without *)
Matches ==
    { [id |-> "a", score |-> 90, metadata |-> [isNone |-> FALSE, items |-> [type |-> "NDA"]]],
      [id |-> "b", score |-> 80, metadata |-> [isNone |-> TRUE, items |-> EmptyDict]] }

MatchLists == {<<>>} \cup {<<m>> : m \in Matches}

(* lines 313-319: one result per match; missing metadata becomes {} *)
ConvertMatches(matches) ==
    [i \in DOMAIN matches |->
        [id |-> matches[i].id, score |-> matches[i].score,
         metadata |-> IF matches[i].metadata.isNone THEN EmptyDict
                      ELSE matches[i].metadata.items]]

(* RetriesAfter retrying after every failure *)
RetriesAfter_Always(i) == TRUE

(* line 307: if attempt == 0 *)
RetriesAfter(i) == i = 0

----------------------------------------------------------------------------
(* FaissVectorStore.search, step by step, as one thread runs it *)

NumThreads == 2

ThreadIds == 1..NumThreads

(* a thread outside search *)
IdleThread ==
    [pc |-> "idle", q |-> <<0, 0>>, top_k |-> 0, filters |-> NoFilters,
     row |-> <<>>, i |-> 0, results |-> <<>>, overlapped |-> FALSE]

(* the filters the threads search with *)
ReaderFilters ==
    {NoFilters, [isNone |-> FALSE, items |-> [type |-> "NDA", risk_level |-> "high"]]}

(* the loop has nothing left to read from the store: the candidates from
   position i on are all the padding (idx -1) that line 103 skips *)
OnlyPaddingFrom(row, i) == \A j \in i..Len(row) : row[j].idx = 0 - 1

(* lines 93-99: without an index the call returns []; else index.search gives
   one of the rows it can give *)
FetchStep(s, t) ==
    IF ~s.index.built
    THEN {[t EXCEPT !.pc = "done", !.results = <<>>]}
    ELSE {[t EXCEPT !.pc = IF OnlyPaddingFrom(row, 1) THEN "done" ELSE "scan",
                    !.row = row, !.i = 1, !.results = <<>>] :
            row \in IndexSearch(s.index, t.q, FetchK(t.top_k, t.filters))}

(* ScanStep that does not look at the tombstone set *)
ScanStep_NoTombstones(s, t) ==
    LET c == t.row[t.i]
        next == [t EXCEPT !.i = t.i + 1,
                          !.pc = IF OnlyPaddingFrom(t.row, t.i + 1) THEN "done" ELSE "scan"]
        meta == DictGet(s.metadata, s.ids[c.idx + 1], EmptyDict)
        more == Append(t.results,
                       [id |-> s.ids[c.idx + 1], score |-> c.score, metadata |-> meta])
    IN  IF c.idx = 0 - 1 \/ c.idx >= Len(s.ids) THEN next
        ELSE IF Truthy(t.filters) /\ ~FilterMatches(meta, t.filters) THEN next
        ELSE IF ReachedTopK(more, t.top_k)
             THEN [t EXCEPT !.results = more, !.pc = "done"]
             ELSE [next EXCEPT !.results = more]

(* lines 102-125: one pass of the loop over the candidates, on the thread's
   locals; the loop ends at the break, or when only padding is left, whose
   passes read nothing of the store and add nothing to results *)
ScanStep(s, t) ==
    LET c == t.row[t.i]
        next == [t EXCEPT !.i = t.i + 1,
                          !.pc = IF OnlyPaddingFrom(t.row, t.i + 1) THEN "done" ELSE "scan"]
    IN  IF c.idx = 0 - 1 THEN next
        ELSE IF c.idx >= Len(s.ids) THEN next
        ELSE LET vec_id == s.ids[c.idx + 1]
                 meta == DictGet(s.metadata, vec_id, EmptyDict)
                 more == Append(t.results,
                                [id |-> vec_id, score |-> c.score, metadata |-> meta])
             IN  IF IsTombstoned(s, vec_id) THEN next
                 ELSE IF Truthy(t.filters) /\ ~FilterMatches(meta, t.filters) THEN next
                 ELSE IF ReachedTopK(more, t.top_k)
                      THEN [t EXCEPT !.results = more, !.pc = "done"]
                      ELSE [next EXCEPT !.results = more]

(* the rows of the store the threads search *)
ReaderCorpus ==
    << [id |-> "b", embedding |-> <<2, 0>>, meta |-> [type |-> "NDA", risk_level |-> "high"]],
       [id |-> "a", embedding |-> <<3, 4>>, meta |-> [type |-> "Employment"]] >>

(* the stores the threads search: built by one upsert of ReaderCorpus, as it
   is or with "b" tombstoned by delete *)
BuiltStores ==
    LET built == upsert(NewStore, [i \in DOMAIN ReaderCorpus |-> ReaderCorpus[i].id],
                        [i \in DOMAIN ReaderCorpus |-> ReaderCorpus[i].embedding],
                        [i \in DOMAIN ReaderCorpus |-> ReaderCorpus[i].meta])
    IN  {built, [built EXCEPT !.deleted_ids = {"b"}]}

(* a store with more rows than the 5 candidates a filtered search with
   top_k = 1 fetches: six ids, six directions (so that a query scores no two
   rows alike), and the filter values of FilterMaps on "b" and "f" *)
WindowCorpus ==
    << [id |-> "f", embedding |-> <<0 - 4, 3>>, meta |-> [type |-> "NDA", risk_level |-> "high"]],
       [id |-> "a", embedding |-> <<1, 0>>, meta |-> [type |-> "Employment"]],
       [id |-> "c", embedding |-> <<3, 4>>, meta |-> [type |-> "Employment"]],
       [id |-> "b", embedding |-> <<4, 3>>, meta |-> [type |-> "NDA", risk_level |-> "high"]],
       [id |-> "d", embedding |-> <<0, 1>>, meta |-> [type |-> "NDA", risk_level |-> "low"]],
       [id |-> "e", embedding |-> <<0 - 3, 4>>, meta |-> [type |-> "Employment"]] >>

----------------------------------------------------------------------------
(* api.get_db *)

NumRequests == 2

(* the requests in flight at once: each runs get_db, a plain def dependency,
   on a thread of the server's pool *)
RequestIds == 1..NumRequests

(* a request that has not called get_db: built is the db object its own
   load_clause_database call returned, received what get_db returned to it *)
IdleRequest == [pc |-> "idle", built |-> 0, received |-> 0]

----------------------------------------------------------------------------
(* review_contract *)

MaxClauses == 3

(* line 154: ThreadPoolExecutor(max_workers=6) *)
PoolWorkers == 6

(* line 72: search_similar_clauses(clause["text"], db, top_k=3) *)
ReviewTopK == 3

(* clause types classify_clause_type assigns; the playbook has a position for
   the first *)
ClauseTypes == {"termination", "other"}

PlaybookTypes == {"termination"}

(* extract_clauses: the clauses carry their 0-based position *)
ExtractedClauses(types) ==
    [i \in DOMAIN types |->
        [clause_type |-> types[i],
         text |-> IF i % 2 = 1 THEN "q" ELSE "qu",
         position |-> i - 1]]

Contracts ==
    {ExtractedClauses(types) : types \in UNION {[1..n -> ClauseTypes] : n \in 1..MaxClauses}}

(* find_playbook_position returns an entry *)
HasPlaybookPosition(clause) == clause.clause_type \in PlaybookTypes

(* clauses_to_review, lines 131-138: the indexes with a playbook position, in
   the order of the clauses *)
RECURSIVE ToReviewFrom(_, _)
ToReviewFrom(cl, i) ==
    IF i > Len(cl) THEN <<>>
    ELSE IF HasPlaybookPosition(cl[i]) THEN <<i>> \o ToReviewFrom(cl, i + 1)
    ELSE ToReviewFrom(cl, i + 1)

ToReview(cl) == ToReviewFrom(cl, 1)

(* clause_analyses[i] = None *)
NoAnalysis == [is_none |-> "true"]

(* lines 139-148 *)
NotCoveredEntry(clause) ==
    [clause_type |-> clause.clause_type, playbook_match |-> "not_covered",
     risk_level |-> "unknown", negotiation_notes |-> "not covered by the playbook",
     position_in_contract |-> clause.position]

(* lines 165-174 *)
FailedEntry(clause) ==
    [clause_type |-> clause.clause_type, playbook_match |-> "not_covered",
     risk_level |-> "unknown", negotiation_notes |-> "review failed",
     position_in_contract |-> clause.position]

(* what parse_json_response_or_raw can give: the model's JSON object, with or
   without a clause_type of its own, or the wrapper of an unparsable answer *)
ParsedAnswers ==
    { [playbook_match |-> "preferred", risk_level |-> "low"],
      [playbook_match |-> "walk_away", clause_type |-> "indemnification"],
      [parse_error |-> "true"] }

(* lines 92-104 of review_clause_against_playbook: defaults for missing keys,
   then the keys that are always assigned *)
ReviewedEntry(clause, parsed) ==
    LET defaults == [clause_type |-> clause.clause_type, playbook_match |-> "not_covered",
                     risk_level |-> "medium", negotiation_notes |-> ""]
        assigned == [position_in_contract |-> clause.position]
    IN  [k \in DOMAIN parsed \cup DOMAIN defaults \cup DOMAIN assigned |->
            IF k \in DOMAIN assigned THEN assigned[k]
            ELSE IF k \in DOMAIN parsed THEN parsed[k]
            ELSE defaults[k]]

(* a submitted review that no worker has taken up *)
QueuedFuture == [state |-> "queued", similar |-> <<>>, result |-> Return(NoAnalysis)]

(* PlaceAt writing to the slot of the future's place in the list *)
PlaceAt_Order(i, k) == k

(* lines 159-165: the k-th future of the list came with clause index i, and
   its entry is assigned to clause_analyses[i] *)
PlaceAt(i, k) == i

----------------------------------------------------------------------------
(* schemas.py and BaseIngestor.ingest *)

MaxDocs == 2

REQUIRED_FIELDS == {"doc_id", "source", "doc_type", "title", "text"}

VALID_SOURCES ==
    {"clauses_json", "cuad", "common_paper", "statutes", "opp115",
     "open_terms_archive", "legalbench"}

VALID_DOC_TYPES == {"clause", "statute", "playbook", "privacy_policy", "terms_of_service"}

(* lines 60-63 *)
MetadataKeys ==
    {"clause_type", "category", "risk_level", "notes",
     "practice_area", "jurisdiction", "citation", "position"}

(* not value, for the values a field takes here: the empty string and None
   are false *)
Falsy(value) == value \in {"", PyNone}

(* validate_document treating every present field as acceptable *)
validate_document_PresenceOnly(doc) ==
    {[error |-> "Missing required field", field |-> f] : f \in REQUIRED_FIELDS \ DOMAIN doc}

(* lines 29-49: the errors of doc; the list is kept as a set, the loop of line
   37 running over a set *)
validate_document(doc) ==
    {[error |-> "Missing required field", field |-> f] : f \in REQUIRED_FIELDS \ DOMAIN doc}
    \cup {[error |-> "Empty required field", field |-> f] :
            f \in {g \in REQUIRED_FIELDS \cap DOMAIN doc : Falsy(doc[g])}}
    \cup {[error |-> "Unknown source", field |-> "source"] :
            x \in {g \in {"source"} \cap DOMAIN doc :
                     ~Falsy(doc[g]) /\ doc[g] \notin VALID_SOURCES}}
    \cup {[error |-> "Unknown doc_type", field |-> "doc_type"] :
            x \in {g \in {"doc_type"} \cap DOMAIN doc :
                     ~Falsy(doc[g]) /\ doc[g] \notin VALID_DOC_TYPES}}

(* existing_metadata reading the optional fields from the document itself *)
existing_metadata_Flat(doc) == doc

(* line 65 *)
existing_metadata(doc) == DictGet(doc, "metadata", EmptyDict)

(* lines 67-78: the dict normalize_document returns *)
normalize_document(doc) ==
    [doc_id |-> DictGet(doc, "doc_id", PyNone),
     source |-> DictGet(doc, "source", PyNone),
     doc_type |-> DictGet(doc, "doc_type", PyNone),
     title |-> DictGet(doc, "title", PyNone),
     text |-> DictGet(doc, "text", PyNone),
     metadata |-> [key \in MetadataKeys |-> DictGet(existing_metadata(doc), key, PyNone)]]

(* InputAfterNormalize filling the defaults into the argument *)
InputAfterNormalize_InPlace(doc) ==
    [k \in DOMAIN doc \cup {"metadata"} |->
        IF k = "metadata" THEN normalize_document(doc).metadata ELSE doc[k]]

(* lines 60-78: the dict passed to normalize_document as the call leaves it;
   no statement assigns into doc or into doc["metadata"] *)
InputAfterNormalize(doc) == doc

(* what transform can hand to ingest: a valid document without metadata, with
   a metadata mapping that has some of the keys and one more, with a complete
   metadata mapping, with an optional field at the top level, with another id;
   and documents with a missing, an empty, a None and a not allowed required
   field *)
TransformedDocs ==
    LET base == [doc_id |-> "a", source |-> "cuad", doc_type |-> "clause",
                 title |-> "T", text |-> "x"]
        with(k, v) == [x \in DOMAIN base \cup {k} |-> IF x = k THEN v ELSE base[x]]
    IN  {base, with("doc_id", "b"), with("category", "flat")}
        \cup {with("metadata", m) :
                m \in {[clause_type |-> "NDA", risk_level |-> PyNone, extra |-> "e"],
                       [key \in MetadataKeys |-> IF key = "position" THEN PyNone ELSE "v"]}}
        \cup {[x \in DOMAIN base \ {"title"} |-> base[x]],
              with("text", ""), with("source", PyNone),
              with("source", "wiki"), with("doc_type", "memo")}

TransformedLists == UNION {[1..n -> TransformedDocs] : n \in 0..MaxDocs}

(* lines 54-68: valid_docs after the documents from the i-th on *)
RECURSIVE ingest_from(_, _)
ingest_from(docs, i) ==
    IF i > Len(docs) THEN <<>>
    ELSE IF validate_document(docs[i]) # {}
         THEN ingest_from(docs, i + 1)
         ELSE <<normalize_document(docs[i])>> \o ingest_from(docs, i + 1)

(* lines 39-68, from the transformed documents on *)
ingest(docs) ==
    [valid_docs |-> ingest_from(docs, 1),
     error_count |-> Cardinality({i \in DOMAIN docs : validate_document(docs[i]) # {}})]

----------------------------------------------------------------------------
(* State *)

NoArgs == EmptyDict

NoSnapshot == [taken |-> FALSE, store |-> NewStore, documents |-> <<>>]

(* the store variables take the fields of s *)
SetStore(s) ==
    /\ index' = s.index
    /\ ids' = s.ids
    /\ metadata' = s.metadata
    /\ deleted_ids' = s.deleted_ids
    /\ content_hash' = s.content_hash

UnchangedStore == UNCHANGED <<index, ids, metadata, deleted_ids, content_hash>>

(* no decorated call, no Pinecone search and no thread has started *)
AuxInit ==
    /\ retry_config = NoRetryConfig
    /\ attempt = 0
    /\ last_exception = NoException
    /\ wrapper_pc = "idle"
    /\ outcome = Return(PyNone)
    /\ invocations = <<>>
    /\ sleeps = <<>>
    /\ pinecone_request = NoRequest
    /\ pinecone_attempt = 0
    /\ pinecone_pc = "idle"
    /\ pinecone_ret = Return(PyNone)
    /\ pinecone_queries = <<>>
    /\ pinecone_sleeps = <<>>
    /\ threads = [t \in ThreadIds |-> IdleThread]
    /\ clauses = <<>>
    /\ clause_analyses = <<>>
    /\ futures = EmptyDict
    /\ review_pc = "idle"
    /\ collected = 0
    /\ completions = <<>>
    /\ db = 0
    /\ requests = [r \in RequestIds |-> IdleRequest]
    /\ builds = 0

Init ==
    /\ index = NoIndex
    /\ ids = <<>>
    /\ metadata = EmptyDict
    /\ deleted_ids = {}
    /\ content_hash = NoHash
    /\ disk = EmptyDisk
    /\ op = "init"
    /\ args = NoArgs
    /\ ret = Return(PyNone)
    /\ upserted = <<>>
    /\ removed = EmptyDict
    /\ saved = NoSnapshot
    /\ corpus = <<>>
    /\ built_by = "none"
    /\ torn = FALSE
    /\ AuxInit

----------------------------------------------------------------------------
(* The calls on one store object *)

UpsertFrom(corpora) ==
    \E c \in corpora :
        /\ SetStore(upsert(Store, [i \in DOMAIN c |-> c[i].id],
                           [i \in DOMAIN c |-> c[i].embedding],
                           [i \in DOMAIN c |-> c[i].meta]))
        /\ UNCHANGED auxVars
        /\ op' = "upsert"
        /\ args' = NoArgs
        /\ ret' = Return(Len(c))
        /\ upserted' = c
        /\ removed' = EmptyDict
        /\ corpus' = <<>>
        /\ built_by' = "upsert"
        /\ UNCHANGED <<disk, saved, torn>>

Upsert == UpsertFrom(Corpora)

Delete ==
    \E id_list \in DeleteLists :
        LET out == delete(Store, id_list)
            present == Range(id_list) \cap Range(ids)
        IN  /\ SetStore([Store EXCEPT !.deleted_ids = out.deleted_ids])
            /\ UNCHANGED auxVars
            /\ op' = "delete"
            /\ args' = [ids |-> id_list]
            /\ ret' = Return(out.deleted)
            /\ removed' = [id \in DOMAIN removed \cup present |->
                              IF id \in DOMAIN removed THEN removed[id]
                              ELSE total_vectors(Store)]
            /\ UNCHANGED <<disk, upserted, saved, corpus, built_by, torn>>

Search ==
    \E q \in Queries, top_k \in TopKs, filters \in FilterArgs :
        \E results \in search(Store, q, top_k, filters) :
            /\ UNCHANGED auxVars
            /\ op' = "search"
            /\ args' = [q |-> q, top_k |-> top_k, filters |-> filters]
            /\ ret' = Return(results)
            /\ UnchangedStore
            /\ UNCHANGED <<disk, upserted, removed, saved, corpus, built_by, torn>>

SearchSimilarClauses ==
    \E query \in QueryTexts, top_k \in TopKs, filters \in FilterArgs :
        \E results \in search_similar_clauses(Store, query, top_k, filters) :
            /\ UNCHANGED auxVars
            /\ op' = "search_similar_clauses"
            /\ args' = [query |-> query, top_k |-> top_k, filters |-> filters]
            /\ ret' = Return(results)
            /\ UnchangedStore
            /\ UNCHANGED <<disk, upserted, removed, saved, corpus, built_by, torn>>

Next == Upsert \/ Delete \/ Search \/ SearchSimilarClauses

Spec == Init /\ [][Next]_vars

----------------------------------------------------------------------------
(* Persistence of one store object at one path (specification SpecPersist) *)

(* the upsert calls of this specification: the two rows with different ids
   and directions *)
PersistCorpora ==
    Arrangements({e \in Entries : e.embedding # <<1, 0>>})

UpsertPersist == UpsertFrom(PersistCorpora)

(* a new FaissVectorStore() takes the place of the store object *)
Construct ==
    /\ SetStore(NewStore)
    /\ UNCHANGED auxVars
    /\ op' = "init"
    /\ args' = NoArgs
    /\ ret' = Return(PyNone)
    /\ upserted' = <<>>
    /\ removed' = EmptyDict
    /\ corpus' = <<>>
    /\ built_by' = "none"
    /\ UNCHANGED <<disk, saved, torn>>

(* save(path) with no content hash: raises without an index, else writes the
   index file and then the side-car *)
Save ==
    /\ UNCHANGED auxVars
    /\ op' = "save"
    /\ args' = [content_hash |-> NoHash]
    /\ UnchangedStore
    /\ UNCHANGED <<upserted, removed, corpus, built_by>>
    /\ IF ~index.built
       THEN /\ ret' = Raise("ValueError")
            /\ UNCHANGED <<disk, saved, torn>>
       ELSE /\ ret' = Return("path")
            /\ torn' = FALSE
            /\ disk' \in save(Store, NoHash, disk)
            /\ saved' = [taken |-> TRUE, store |-> Store, documents |-> corpus]

Load ==
    LET out == load(Store, disk)
    IN  /\ SetStore(out.store)
        /\ UNCHANGED auxVars
        /\ op' = "load"
        /\ args' = [was_new |-> Store = NewStore]
        /\ ret' = out.ret
        /\ upserted' = IF out.store = Store THEN upserted ELSE <<>>
        /\ removed' = IF out.store = Store THEN removed ELSE EmptyDict
        /\ corpus' = IF out.store = Store THEN corpus ELSE saved.documents
        /\ built_by' = IF out.ret = Return(TRUE) THEN "load" ELSE built_by
        /\ UNCHANGED <<disk, saved, torn>>

(* the environment removes one of the two artifacts *)
RemoveArtifact ==
    /\ disk.index_file.exists /\ disk.meta_file.exists
    /\ \/ disk' = [disk EXCEPT !.index_file = NoFile]
       \/ disk' = [disk EXCEPT !.meta_file = NoFile]
    /\ saved' = NoSnapshot
    /\ UNCHANGED auxVars
    /\ op' = "environment"
    /\ args' = NoArgs
    /\ ret' = Return(PyNone)
    /\ UnchangedStore
    /\ UNCHANGED <<upserted, removed, corpus, built_by, torn>>

(* the side-car is replaced by one that lacks a required key *)
DropSidecarKey ==
    /\ disk.meta_file.exists
    /\ RequiredKeys \subseteq DOMAIN disk.meta_file.content
    /\ \E k \in RequiredKeys :
          disk' = [disk EXCEPT !.meta_file.content =
                      [x \in DOMAIN disk.meta_file.content \ {k} |->
                          disk.meta_file.content[x]]]
    /\ saved' = NoSnapshot
    /\ UNCHANGED auxVars
    /\ op' = "environment"
    /\ args' = NoArgs
    /\ ret' = Return(PyNone)
    /\ UnchangedStore
    /\ UNCHANGED <<upserted, removed, corpus, built_by, torn>>

(* db = load_documents(documents, index_path=path); the returned store takes
   the place of the store object *)
LoadDocuments ==
    \E documents \in DocumentLists :
        LET out == load_documents(documents, disk)
        IN  /\ UNCHANGED auxVars
            /\ op' = "load_documents"
            /\ args' = [documents |-> documents]
            /\ ret' = [out.ret EXCEPT !.value = out.info]
            /\ disk' \in out.disks
            /\ removed' = EmptyDict
            /\ IF out.ret.kind = "raise"
               THEN /\ UnchangedStore
                    /\ UNCHANGED <<upserted, saved, corpus, built_by, torn>>
               ELSE /\ SetStore(out.store)
                    /\ corpus' = IF out.info.reused THEN saved.documents ELSE documents
                    /\ upserted' =
                          IF out.info.reused THEN <<>>
                          ELSE [i \in DOMAIN documents |->
                                   [id |-> documents[i].doc_id,
                                    embedding |-> EmbedText(EmbeddingTexts(documents)[i]),
                                    meta |-> FlattenMetadata(documents[i])]]
                    /\ saved' = IF out.saved
                                THEN [taken |-> TRUE, store |-> out.store,
                                      documents |-> documents]
                                ELSE saved
                    /\ built_by' = IF out.info.reused THEN "load" ELSE "upsert"
                    /\ torn' = IF out.saved THEN FALSE ELSE torn

NextLD == LoadDocuments \/ Delete \/ Save

(* ingest_all.main from line 78 on, with the FAISS backend and a non-empty
   all_docs: load_documents(documents=all_docs) has no index_path, so it
   neither loads nor saves (lines 118 and 172) and builds a new store; line 88
   then saves it with save(args.save_index), that is, without a content
   hash *)
IngestAllMain ==
    \E documents \in DocumentLists :
        LET built == Rebuild(NewStore, documents)
        IN  /\ SetStore(built)
            /\ UNCHANGED auxVars
            /\ op' = "ingest_all"
            /\ args' = [documents |-> documents]
            /\ ret' = Return(PyNone)
            /\ disk' \in save(built, NoHash, disk)
            /\ upserted' = [i \in DOMAIN documents |->
                               [id |-> documents[i].doc_id,
                                embedding |-> EmbedText(EmbeddingTexts(documents)[i]),
                                meta |-> FlattenMetadata(documents[i])]]
            /\ removed' = EmptyDict
            /\ saved' = [taken |-> TRUE, store |-> built, documents |-> documents]
            /\ corpus' = documents
            /\ built_by' = "upsert"
            /\ torn' = FALSE

NextIngestAll == IngestAllMain \/ LoadDocuments

SpecIngestAll == Init /\ [][NextIngestAll]_vars

SpecLD == Init /\ [][NextLD]_vars

(* save(path) on a built store stops between its writes: after write_index
   (line 162), or after open(meta_file, "w") and before json.dump completes
   (lines 170-171) *)
SaveInterrupted ==
    /\ index.built
    /\ \/ disk' = WriteIndex(Store, disk)
       \/ disk' = WriteFile(WriteIndex(Store, disk), "meta_file", TruncatedSidecar)
    /\ UNCHANGED auxVars
    /\ op' = "save"
    /\ args' = [content_hash |-> NoHash]
    /\ ret' = Raise("Interrupted")
    /\ torn' = TRUE
    /\ UnchangedStore
    /\ UNCHANGED <<upserted, removed, saved, corpus, built_by>>

NextCrash ==
    UpsertPersist \/ Delete \/ Construct \/ Save \/ SaveInterrupted \/ Load

SpecCrash == Init /\ [][NextCrash]_vars

----------------------------------------------------------------------------
(* A call of a function decorated with retry_with_backoff *)

(* what the steps of the wrapper leave alone *)
notRetryVars == <<storeVars, pineconeVars, threads, reviewVars, apiVars>>

(* the decorated function is called: lines 33-35 *)
RetryCall ==
    /\ wrapper_pc \in {"idle", "done"}
    /\ \E config \in RetryConfigs : retry_config' = config
    /\ attempt' = 0
    /\ last_exception' = NoException
    /\ wrapper_pc' = "try"
    /\ outcome' = Return(PyNone)
    /\ invocations' = <<>>
    /\ sleeps' = <<>>
    /\ UNCHANGED notRetryVars

(* the for loop of line 35 goes on to its next value or ends *)
NextAttempt ==
    IF LoopEnds(retry_config, attempt)
    THEN wrapper_pc' = "raise" /\ UNCHANGED attempt
    ELSE wrapper_pc' = "try" /\ attempt' = attempt + 1

(* lines 36-47, one pass of the loop body up to the sleep: func returns, or
   raises an exception that is or is not caught *)
Invoke ==
    /\ wrapper_pc = "try"
    /\ \E result \in {Return("ok")}
                       \cup {Raise(ExceptionObject(t, Len(invocations) + 1)) :
                               t \in ExceptionTypes} :
          /\ invocations' = Append(invocations, result)
          /\ IF result.kind = "return" \/ ~IsRetryable(retry_config, result.value)
             THEN /\ outcome' = result
                  /\ wrapper_pc' = "done"
                  /\ UNCHANGED <<attempt, last_exception>>
             ELSE /\ last_exception' = result.value
                  /\ UNCHANGED outcome
                  /\ IF ShouldSleep(retry_config, attempt)
                     THEN wrapper_pc' = "sleep" /\ UNCHANGED attempt
                     ELSE NextAttempt
    /\ UNCHANGED <<retry_config, sleeps>>
    /\ UNCHANGED notRetryVars

(* lines 40-45: time.sleep(delay) *)
Sleep ==
    /\ wrapper_pc = "sleep"
    /\ sleeps' = Append(sleeps, Delay(retry_config, attempt))
    /\ NextAttempt
    /\ UNCHANGED <<retry_config, last_exception, outcome, invocations>>
    /\ UNCHANGED notRetryVars

(* line 46: raise last_exception; raising None is a TypeError *)
RaiseLast ==
    /\ wrapper_pc = "raise"
    /\ outcome' = IF last_exception = NoException
                  THEN Raise(ExceptionObject("TypeError", 0))
                  ELSE Raise(last_exception)
    /\ wrapper_pc' = "done"
    /\ UNCHANGED <<retry_config, attempt, last_exception, invocations, sleeps>>
    /\ UNCHANGED notRetryVars

NextRetry == RetryCall \/ Invoke \/ Sleep \/ RaiseLast

SpecRetry == Init /\ [][NextRetry]_vars

(* the wrapped function returns or raises, and a sleep ends *)
SpecRetryLive ==
    SpecRetry /\ WF_vars(Invoke) /\ WF_vars(Sleep) /\ WF_vars(RaiseLast)

(* get_embeddings(texts, provider, batch_size): the rows it returns and the
   calls of provider.embed it makes *)
GetEmbeddings ==
    \E texts \in TextLists, batch_size \in BatchSizes :
        /\ op' = "get_embeddings"
        /\ args' = [texts |-> texts, batch_size |-> batch_size]
        /\ ret' = Return([rows |-> get_embeddings(texts, batch_size),
                          calls |-> provider_calls(texts, batch_size)])
        /\ UnchangedStore
        /\ UNCHANGED <<disk, upserted, removed, saved, corpus, built_by, torn>>
        /\ UNCHANGED auxVars

NextEmbed == GetEmbeddings

SpecEmbed == Init /\ [][NextEmbed]_vars

----------------------------------------------------------------------------
(* A call of PineconeVectorStore.search *)

notPineconeVars == <<storeVars, retryVars, threads, reviewVars, apiVars>>

(* lines 281-295: search is called and builds the request *)
PineconeSearch ==
    /\ pinecone_pc \in {"idle", "done"}
    /\ \E q \in Queries, top_k \in TopKs, filters \in FilterArgs :
          pinecone_request' = QueryRequest(q, top_k, filters)
    /\ pinecone_attempt' = 0
    /\ pinecone_pc' = "query"
    /\ pinecone_ret' = Return(PyNone)
    /\ pinecone_queries' = <<>>
    /\ pinecone_sleeps' = <<>>
    /\ UNCHANGED notPineconeVars

(* lines 298-311 and 313-321: index.query answers or raises; an answer is
   converted and returned, a failure is retried or re-raised *)
PineconeQuery ==
    /\ pinecone_pc = "query"
    /\ \E answer \in {Return(m) : m \in MatchLists}
                       \cup {Raise(ExceptionObject(t, Len(pinecone_queries) + 1)) :
                               t \in ExceptionTypes} :
          /\ pinecone_queries' = Append(pinecone_queries, answer)
          /\ IF answer.kind = "return"
             THEN /\ pinecone_ret' = Return(ConvertMatches(answer.value))
                  /\ pinecone_pc' = "done"
             ELSE IF RetriesAfter(pinecone_attempt)
             THEN /\ pinecone_pc' = "sleep"
                  /\ UNCHANGED pinecone_ret
             ELSE /\ pinecone_ret' = answer
                  /\ pinecone_pc' = "done"
    /\ UNCHANGED <<pinecone_request, pinecone_attempt, pinecone_sleeps>>
    /\ UNCHANGED notPineconeVars

(* lines 308-309, then the next value of range(2); when the loop ends with no
   response, line 314 reads an unbound name *)
PineconeSleep ==
    /\ pinecone_pc = "sleep"
    /\ pinecone_sleeps' = Append(pinecone_sleeps, QueryRetryDelay)
    /\ IF pinecone_attempt + 1 < QueryAttempts
       THEN /\ pinecone_attempt' = pinecone_attempt + 1
            /\ pinecone_pc' = "query"
            /\ UNCHANGED pinecone_ret
       ELSE /\ pinecone_ret' = Raise(ExceptionObject("UnboundLocalError", 0))
            /\ pinecone_pc' = "done"
            /\ UNCHANGED pinecone_attempt
    /\ UNCHANGED <<pinecone_request, pinecone_queries>>
    /\ UNCHANGED notPineconeVars

NextPinecone == PineconeSearch \/ PineconeQuery \/ PineconeSleep

SpecPinecone == Init /\ [][NextPinecone]_vars

----------------------------------------------------------------------------
(* Concurrent searches on a built store, with no writer *)

InitReaders ==
    /\ \E s \in BuiltStores :
          /\ index = s.index
          /\ ids = s.ids
          /\ metadata = s.metadata
          /\ deleted_ids = s.deleted_ids
          /\ content_hash = s.content_hash
    /\ disk = EmptyDisk
    /\ op = "init"
    /\ args = NoArgs
    /\ ret = Return(PyNone)
    /\ upserted = <<>>
    /\ removed = EmptyDict
    /\ saved = NoSnapshot
    /\ corpus = <<>>
    /\ built_by = "upsert"
    /\ torn = FALSE
    /\ AuxInit

notThreadVars == <<disk, op, args, ret, upserted, removed, saved, corpus, built_by, torn,
                   retryVars, pineconeVars, reviewVars, apiVars>>

(* another thread is inside search *)
OthersInFlight(t) == \E u \in ThreadIds \ {t} : threads[u].pc \in {"fetch", "scan"}

(* thread t takes the step that leaves its record as next *)
ThreadStep(t, next) ==
    threads' = [threads EXCEPT ![t] =
                   [next EXCEPT !.overlapped = next.overlapped \/ OthersInFlight(t)]]

(* thread t calls store.search(q, top_k, filters) *)
ThreadCall(t) ==
    /\ threads[t].pc \in {"idle", "done"}
    /\ \E q \in Queries, top_k \in TopKs, filters \in ReaderFilters :
          threads' = [threads EXCEPT ![t] =
                         [IdleThread EXCEPT !.pc = "fetch", !.q = q, !.top_k = top_k,
                                            !.filters = filters]]
    /\ UnchangedStore
    /\ UNCHANGED notThreadVars

(* thread t runs lines 93-99 *)
ThreadFetch(t) ==
    /\ threads[t].pc = "fetch"
    /\ \E next \in FetchStep(Store, threads[t]) : ThreadStep(t, next)
    /\ UnchangedStore
    /\ UNCHANGED notThreadVars

(* thread t runs one pass of the loop of lines 102-125 *)
ThreadScan(t) ==
    /\ threads[t].pc = "scan"
    /\ ThreadStep(t, ScanStep(Store, threads[t]))
    /\ UnchangedStore
    /\ UNCHANGED notThreadVars

NextReaders == \E t \in ThreadIds : ThreadCall(t) \/ ThreadFetch(t) \/ ThreadScan(t)

SpecReaders == InitReaders /\ [][NextReaders]_vars

----------------------------------------------------------------------------
(* review_contract and the workers of its pool *)

notReviewVars == <<storeVars, retryVars, pineconeVars, threads, apiVars>>

(* lines 123-157: the clauses are extracted, the ones without a playbook
   position get their entry, the others are submitted to the pool *)
ReviewContract ==
    /\ review_pc \in {"idle", "done"}
    /\ \E cl \in Contracts :
          /\ clauses' = cl
          /\ clause_analyses' =
                [i \in DOMAIN cl |->
                    IF HasPlaybookPosition(cl[i]) THEN NoAnalysis ELSE NotCoveredEntry(cl[i])]
          /\ futures' = [i \in Range(ToReview(cl)) |-> QueuedFuture]
          /\ review_pc' = IF ToReview(cl) = <<>> THEN "done" ELSE "collect"
    /\ collected' = 0
    /\ completions' = <<>>
    /\ UNCHANGED notReviewVars

(* a free worker takes up the review of clause i and runs line 72:
   search_similar_clauses reads the store *)
WorkerStart(i) ==
    /\ futures[i].state = "queued"
    /\ Cardinality({j \in DOMAIN futures : futures[j].state = "running"}) < PoolWorkers
    /\ \E similar \in search_similar_clauses(Store, clauses[i].text, ReviewTopK, NoFilters) :
          futures' = [futures EXCEPT ![i] = [@ EXCEPT !.state = "running",
                                                       !.similar = similar]]
    /\ UNCHANGED <<clauses, clause_analyses, review_pc, collected, completions>>
    /\ UNCHANGED notReviewVars

(* lines 73-106: the review of clause i returns its entry, or raises *)
WorkerFinish(i) ==
    /\ futures[i].state = "running"
    /\ \E result \in {Return(ReviewedEntry(clauses[i], parsed)) : parsed \in ParsedAnswers}
                       \cup {Raise(ExceptionObject("RuntimeError", i))} :
          futures' = [futures EXCEPT ![i] =
                         [@ EXCEPT !.state = IF result.kind = "return" THEN "returned"
                                             ELSE "raised",
                                   !.result = result]]
    /\ completions' = Append(completions, i)
    /\ UNCHANGED <<clauses, clause_analyses, review_pc, collected>>
    /\ UNCHANGED notReviewVars

(* lines 159-174: future.result() of the next future of the list has an
   outcome; its entry, or the fallback entry, is assigned *)
Collect ==
    /\ review_pc = "collect"
    /\ LET k == collected + 1
           i == ToReview(clauses)[k]
       IN  /\ futures[i].state \in {"returned", "raised"}
           /\ clause_analyses' =
                 [clause_analyses EXCEPT ![PlaceAt(i, k)] =
                     IF futures[i].state = "returned" THEN futures[i].result.value
                     ELSE FailedEntry(clauses[i])]
           /\ collected' = k
           /\ review_pc' = IF k = Len(ToReview(clauses)) THEN "done" ELSE "collect"
    /\ UNCHANGED <<clauses, futures, completions>>
    /\ UNCHANGED notReviewVars

NextReview ==
    \/ ReviewContract
    \/ \E i \in DOMAIN futures : WorkerStart(i) \/ WorkerFinish(i)
    \/ Collect

SpecReview == InitReaders /\ [][NextReview]_vars

----------------------------------------------------------------------------
(* Calls of the schema helpers and of BaseIngestor.ingest *)

(* normalize_document(doc), and normalize_document of what it returned *)
NormalizeDocument ==
    \E doc \in TransformedDocs :
        /\ op' = "normalize_document"
        /\ args' = [doc |-> doc]
        /\ ret' = Return([once |-> normalize_document(doc),
                          twice |-> normalize_document(normalize_document(doc)),
                          doc_after |-> InputAfterNormalize(doc)])
        /\ UnchangedStore
        /\ UNCHANGED <<disk, upserted, removed, saved, corpus, built_by, torn>>
        /\ UNCHANGED auxVars

(* ingest() of an ingestor whose transform gives docs *)
Ingest ==
    \E docs \in TransformedLists :
        /\ op' = "ingest"
        /\ args' = [docs |-> docs]
        /\ ret' = Return(ingest(docs))
        /\ UnchangedStore
        /\ UNCHANGED <<disk, upserted, removed, saved, corpus, built_by, torn>>
        /\ UNCHANGED auxVars

NextIngest == NormalizeDocument \/ Ingest

SpecIngest == Init /\ [][NextIngest]_vars

----------------------------------------------------------------------------
(* delete on the two backends (specification SpecDelete) *)

(* the ids the Pinecone index holds when delete is called *)
RemoteIndexes == SUBSET DocIds

(* PineconeVectorStore.delete, lines 323-325: the index drops the ids it
   holds, and len(ids) is returned *)
pinecone_delete(remote, id_list) ==
    [remote |-> remote \ Range(id_list), count |-> Len(id_list)]

PineconeDelete ==
    \E remote \in RemoteIndexes, id_list \in DeleteLists :
        LET out == pinecone_delete(remote, id_list)
        IN  /\ op' = "pinecone_delete"
            /\ args' = [ids |-> id_list, remote |-> remote]
            /\ ret' = Return([count |-> out.count, remote |-> out.remote])
            /\ UnchangedStore
            /\ UNCHANGED <<disk, upserted, removed, saved, corpus, built_by, torn>>
            /\ UNCHANGED auxVars

NextDelete == Upsert \/ Delete \/ PineconeDelete

SpecDelete == Init /\ [][NextDelete]_vars

----------------------------------------------------------------------------
(* Searches and deletes on a store larger than the over-fetch window
   (specification SpecWindow) *)

(* the store after upsert of WindowCorpus, in this or in the reverse order, on
   a new FaissVectorStore *)
InitWindow ==
    /\ \E c \in {WindowCorpus,
                  [i \in DOMAIN WindowCorpus |-> WindowCorpus[Len(WindowCorpus) + 1 - i]]} :
          LET s == upsert(NewStore, [i \in DOMAIN c |-> c[i].id],
                          [i \in DOMAIN c |-> c[i].embedding],
                          [i \in DOMAIN c |-> c[i].meta])
          IN  /\ index = s.index
              /\ ids = s.ids
              /\ metadata = s.metadata
              /\ deleted_ids = s.deleted_ids
              /\ content_hash = s.content_hash
              /\ upserted = c
    /\ disk = EmptyDisk
    /\ op = "upsert"
    /\ args = NoArgs
    /\ ret = Return(Len(WindowCorpus))
    /\ removed = EmptyDict
    /\ saved = NoSnapshot
    /\ corpus = <<>>
    /\ built_by = "upsert"
    /\ torn = FALSE
    /\ AuxInit

NextWindow == Search \/ Delete

SpecWindow == InitWindow /\ [][NextWindow]_vars

----------------------------------------------------------------------------
(* Requests calling api.get_db (specification SpecApi) *)

notApiVars == <<storeVars, retryVars, pineconeVars, threads, reviewVars>>

(* request r takes the step next, the other requests staying where they are *)
RequestStep(r, next) ==
    /\ requests' = [requests EXCEPT ![r] = next]
    /\ UNCHANGED notApiVars

(* a request arrives and its handler's dependency get_db is called *)
GetDbCall(r) ==
    /\ requests[r].pc \in {"idle", "done"}
    /\ RequestStep(r, [IdleRequest EXCEPT !.pc = "check"])
    /\ UNCHANGED <<db, builds>>

(* line 75: if _db is None *)
GetDbCheck(r) ==
    /\ requests[r].pc = "check"
    /\ RequestStep(r, [requests[r] EXCEPT !.pc = IF db = 0 THEN "load" ELSE "return"])
    /\ UNCHANGED <<db, builds>>

(* line 77, right-hand side: load_clause_database() builds a new db object *)
GetDbLoad(r) ==
    /\ requests[r].pc = "load"
    /\ builds' = builds + 1
    /\ RequestStep(r, [requests[r] EXCEPT !.pc = "assign", !.built = builds + 1])
    /\ UNCHANGED db

(* line 77, assignment: _db = ... *)
GetDbAssign(r) ==
    /\ requests[r].pc = "assign"
    /\ db' = requests[r].built
    /\ RequestStep(r, [requests[r] EXCEPT !.pc = "return"])
    /\ UNCHANGED builds

(* line 78: return _db *)
GetDbReturn(r) ==
    /\ requests[r].pc = "return"
    /\ RequestStep(r, [requests[r] EXCEPT !.pc = "done", !.received = db])
    /\ UNCHANGED <<db, builds>>

NextApi ==
    \E r \in RequestIds :
        GetDbCall(r) \/ GetDbCheck(r) \/ GetDbLoad(r) \/ GetDbAssign(r) \/ GetDbReturn(r)

SpecApi == Init /\ [][NextApi]_vars

NextPersist ==
    UpsertPersist \/ Delete \/ Construct \/ Save \/ Load \/ RemoveArtifact \/ DropSidecarKey

SpecPersist == Init /\ [][NextPersist]_vars

----------------------------------------------------------------------------
(* Properties of search and delete on one store (specification Spec) *)

(* the physical rows of the index whose id is not tombstoned *)
LiveRows(s) ==
    {i \in 1..total_vectors(s) : i <= Len(s.ids) /\ s.ids[i] \notin s.deleted_ids}

IsSearch == op = "search" /\ ret.kind = "return"

Unfiltered == ~Truthy(args.filters)

(* C1: once delete has tombstoned an id that was in the store, no search made
   after it (with only searches and deletes in between) returns that id, and
   total_vectors still has the value it had before the delete. *)
C1_TombstoneExclusion ==
    \A id \in DOMAIN removed :
        /\ total_vectors(Store) = removed[id]
        /\ IsSearch => \A i \in DOMAIN ret.value : ret.value[i].id # id
        /\ op = "search_similar_clauses" =>
              \A i \in DOMAIN ret.value : ret.value[i].clause.id # id

(* a search after a delete returns another document although the deleted id's
   row has the higher score *)
C1_Witness ==
    /\ IsSearch
    /\ Unfiltered
    /\ Len(ret.value) >= 1
    /\ \E id \in DOMAIN removed : \E i \in DOMAIN ids :
          ids[i] = id /\ Dot(args.q, index.vecs[i]) > ret.value[1].score

(* C5: every result of a search with a non-empty filter carries every filter
   key with exactly the filter's value. *)
C5_FilterCorrectness ==
    (IsSearch /\ Truthy(args.filters)) =>
        \A i \in DOMAIN ret.value : \A k \in DOMAIN args.filters.items :
            /\ k \in DOMAIN ret.value[i].metadata
            /\ ret.value[i].metadata[k] = args.filters.items[k]

(* a two-key filter returned a result while a live row of the store, which
   fails the filter, was left out *)
C5_Witness ==
    /\ IsSearch
    /\ Cardinality(DOMAIN args.filters.items) = 2
    /\ Len(ret.value) >= 1
    /\ \E i \in LiveRows(Store) : ~FilterMatches(metadata[ids[i]], args.filters)

(* C6: a search returns at most top_k results. *)
C6_TopKBound == IsSearch => Len(ret.value) <= args.top_k

(* a filtered search stopped at top_k although more live rows match *)
C6_Witness ==
    /\ IsSearch
    /\ Truthy(args.filters)
    /\ Len(ret.value) = args.top_k
    /\ Cardinality({i \in LiveRows(Store) :
                       FilterMatches(metadata[ids[i]], args.filters)}) > args.top_k

(* C7: an unfiltered search returns exactly top_k results whenever the store
   holds at least top_k live (non-tombstoned) vectors. *)
C7_ExactlyK ==
    (IsSearch /\ Unfiltered /\ Cardinality(LiveRows(Store)) >= args.top_k) =>
        Len(ret.value) = args.top_k

(* C8: the results of search, and of search_similar_clauses, are in
   non-increasing score order. *)
C8_ScoreOrder ==
    (op \in {"search", "search_similar_clauses"}) =>
        \A i \in 1..(Len(ret.value) - 1) : ret.value[i].score >= ret.value[i + 1].score

(* search_similar_clauses returned two results with different scores *)
C8_Witness ==
    /\ op = "search_similar_clauses"
    /\ Len(ret.value) >= 2
    /\ ret.value[1].score > ret.value[2].score

(* the score of upserted row i for query q: inner product with the normalized row *)
ExpectedScore(q, i) == Dot(q, NormalizeL2(upserted[i].embedding))

(* results are min(k, n) different upserted rows, each with its id and inner
   product, and no row left out scores higher than a row returned *)
IsTopK(results, q, k) ==
    LET n == Len(upserted)
    IN  /\ Len(results) = Min(k, n)
        /\ \E s \in [1..Len(results) -> 1..n] :
              /\ \A i, j \in DOMAIN s : i # j => s[i] # s[j]
              /\ \A j \in DOMAIN s :
                    /\ results[j].id = upserted[s[j]].id
                    /\ results[j].score = ExpectedScore(q, s[j])
              /\ \A i \in (1..n) \ Range(s) :
                    \A j \in DOMAIN s : ExpectedScore(q, i) <= results[j].score

NoTombstoneSearch == IsSearch /\ Unfiltered /\ deleted_ids = {} /\ upserted # <<>>

(* a top_k = 1 search with row i's own normalized embedding returns row i's id
   with the score of a unit vector with itself *)
FindsItself ==
    \A i \in DOMAIN upserted :
        (args.top_k = 1 /\ args.q = NormalizeL2(upserted[i].embedding)) =>
            /\ Len(ret.value) = 1
            /\ ret.value[1].id = upserted[i].id
            /\ ret.value[1].score = UnitScale * UnitScale

DistinctEmbeddings ==
    \A i, j \in DOMAIN upserted : i # j => upserted[i].embedding # upserted[j].embedding

DistinctDirections ==
    \A i, j \in DOMAIN upserted :
        i # j => NormalizeL2(upserted[i].embedding) # NormalizeL2(upserted[j].embedding)

(* C9 as stated: without tombstones an unfiltered search returns the top_k
   rows by inner product with the normalized embeddings, and for documents with
   distinct embeddings a top_k = 1 search with a document's own normalized
   embedding returns that document's id. *)
C9_Original ==
    NoTombstoneSearch =>
        /\ IsTopK(ret.value, args.q, args.top_k)
        /\ DistinctEmbeddings => FindsItself

(* C9 amended: the same, for documents whose normalized embeddings are
   pairwise distinct. *)
C9_InnerProductRanking ==
    NoTombstoneSearch =>
        /\ IsTopK(ret.value, args.q, args.top_k)
        /\ DistinctDirections => FindsItself

(* a top_k = 1 search with the second row's own normalized embedding, on a
   store of rows with different directions, returned one result *)
C9_Witness ==
    /\ NoTombstoneSearch
    /\ Len(upserted) >= 2
    /\ DistinctDirections
    /\ args.top_k = 1
    /\ args.q = NormalizeL2(upserted[2].embedding)
    /\ Len(ret.value) = 1

----------------------------------------------------------------------------
(* Properties of save and load (specification SpecPersist) *)

IsLoad == op = "load"

(* C2: a load of what save wrote returns True and reproduces the id list, the
   metadata map, the tombstone set and the physical vector count, so every
   search on the loaded store has the results it has on the saved store. *)
C2_SaveLoadRoundTrip ==
    (IsLoad /\ saved.taken) =>
        /\ ret.kind = "return" /\ ret.value = TRUE
        /\ ids = saved.store.ids
        /\ metadata = saved.store.metadata
        /\ deleted_ids = saved.store.deleted_ids
        /\ total_vectors(Store) = total_vectors(saved.store)
        /\ \A q \in Queries, top_k \in TopKs, filters \in FilterArgs :
              search(Store, q, top_k, filters) = search(saved.store, q, top_k, filters)

(* a new store loaded a saved store of two rows, one of them tombstoned *)
C2_Witness ==
    /\ IsLoad
    /\ args.was_new
    /\ saved.taken
    /\ Len(ids) >= 2
    /\ deleted_ids \cap Range(ids) # {}
    /\ ret.kind = "return" /\ ret.value = TRUE

(* C10: load returns False and raises nothing whenever an artifact is missing
   or the side-car lacks one of the keys ids, metadata, deleted_ids. *)
C10_LoadReturnsFalse ==
    (IsLoad /\ (\/ ~disk.index_file.exists
                \/ ~disk.meta_file.exists
                \/ ~(RequiredKeys \subseteq DOMAIN disk.meta_file.content))) =>
        (ret.kind = "return" /\ ret.value = FALSE)

----------------------------------------------------------------------------
(* load_documents and the persisted index *)

(* a load_documents call has just returned *)
IsLoadDocuments == op = "load_documents" /\ ret.kind = "return"

(* C3: when the persisted index loads but its stored content_hash differs from
   the fingerprint of the passed documents, the index is rebuilt from scratch:
   every passed document is embedded and upserted, and ids, metadata and the
   tombstone set of the returned store are those of a store built from the
   passed documents alone *)
C3_RebuildFromScratch ==
    (/\ IsLoadDocuments
     /\ ret.value.loaded
     /\ ret.value.stored_hash # ContentHash(args.documents))
        => /\ ~ret.value.reused
           /\ ret.value.embedded = Len(args.documents)
           /\ LET fresh == Rebuild(NewStore, args.documents)
              IN  /\ ids = fresh.ids
                  /\ metadata = fresh.metadata
                  /\ deleted_ids = fresh.deleted_ids

(* the step is a load_documents call that loads an index persisted from the
   corpus saved.documents *)
LoadsPersisted ==
    /\ op' = "load_documents"
    /\ ret'.kind = "return"
    /\ ret'.value.loaded
    /\ saved.taken

(* C4 as stated: if the passed corpus differs in any document (doc_id, title,
   text or metadata) from the corpus the persisted index was built from,
   load_documents does not return the persisted index *)
C4_Original ==
    [][(LoadsPersisted /\ args'.documents # saved.documents)
          => ~ret'.value.reused]_vars

(* C4: if the passed corpus differs from the corpus the persisted index was
   built from in the number of documents or in the fingerprint input (the
   doc_ids and the first 64 characters of the texts, in order), load_documents
   does not return the persisted index but embeds and upserts every passed
   document *)
C4_FingerprintGuard ==
    [][(/\ LoadsPersisted
        /\ \/ Len(args'.documents) # Len(saved.documents)
           \/ FingerprintInput(args'.documents) # FingerprintInput(saved.documents))
          => /\ ~ret'.value.reused
             /\ ret'.value.embedded = Len(args'.documents)]_vars

(* a persisted index of the same size with another fingerprint was loaded and
   not reused *)
C4_Witness ==
    /\ IsLoadDocuments
    /\ ret.value.loaded
    /\ ret.value.stored_total = Len(args.documents)
    /\ ~ret.value.stored_hash.isNone
    /\ ret.value.stored_hash # ContentHash(args.documents)
    /\ ~ret.value.reused
    /\ ret.value.embedded = Len(args.documents)

----------------------------------------------------------------------------
(* upsert and earlier state *)

(* the store that the last upsert call builds on a new FaissVectorStore *)
FreshlyUpserted ==
    upsert(NewStore, [i \in DOMAIN upserted |-> upserted[i].id],
           [i \in DOMAIN upserted |-> upserted[i].embedding],
           [i \in DOMAIN upserted |-> upserted[i].meta])

(* C11: after upsert the index, id list, metadata map and tombstone set depend
   only on the arguments of that call: they are those of a new store on which
   the same call was made, so a previously deleted id that is passed again is
   not tombstoned *)
C11_UpsertReplacesState ==
    op = "upsert"
        => /\ index = FreshlyUpserted.index
           /\ ids = FreshlyUpserted.ids
           /\ metadata = FreshlyUpserted.metadata
           /\ deleted_ids = FreshlyUpserted.deleted_ids

(* the ids of a search result list, in order *)
ResultIds == [i \in DOMAIN ret.value |-> ret.value[i].id]

(* C12: the store holds one physical vector per doc_id, total_vectors is the
   number of distinct ids, and no search result list names an id twice, also
   after an upsert call whose id list names a doc_id more than once *)
C12_OneVectorPerDocId ==
    /\ \A i, j \in DOMAIN ids : ids[i] = ids[j] => i = j
    /\ total_vectors(Store) = Cardinality(Range(ids))
    /\ IsSearch => \A i, j \in DOMAIN ResultIds : ResultIds[i] = ResultIds[j] => i = j

----------------------------------------------------------------------------
(* save *)

IsSave == op = "save"

BothArtifacts == disk.dir_exists /\ disk.index_file.exists /\ disk.meta_file.exists

(* C13: save on a store on which no upsert and no successful load has happened
   raises; on a built store it returns, and the directory and both artifacts
   are there *)
C13_SaveNeedsBuiltIndex ==
    IsSave =>
        IF built_by = "none"
        THEN ret.kind = "raise"
        ELSE ret.kind = "return" /\ BothArtifacts

(* C14: after a save that stopped between its two writes, load returns False
   and does not load an index and a side-car of different snapshots *)
C14_TornSaveDetected ==
    (IsLoad /\ torn) => ret = Return(FALSE)

----------------------------------------------------------------------------
(* retry_with_backoff *)

(* the call has used its whole budget: max_retries + 1 invocations, every one
   of which raised an exception that was caught *)
Exhausted ==
    /\ wrapper_pc = "done"
    /\ Len(invocations) = retry_config.max_retries + 1
    /\ \A i \in DOMAIN invocations :
          /\ invocations[i].kind = "raise"
          /\ invocations[i].value.type \in retry_config.retryable_exceptions

(* at most max_retries + 1 invocations; a successful invocation is the last
   one and its result is returned; an exhausted call raises the exception
   object of its last invocation *)
RetryBudget ==
    /\ Len(invocations) <= retry_config.max_retries + 1
    /\ \A i \in DOMAIN invocations :
          invocations[i].kind = "return"
              => /\ i = Len(invocations)
                 /\ wrapper_pc = "done"
                 /\ outcome = invocations[i]
    /\ Exhausted => outcome = Raise(invocations[Len(invocations)].value)

(* C15: a call through retry_with_backoff(max_retries=n) invokes the function
   at most n+1 times, returns the first successful result with no further
   invocation, raises the last invocation's exception object when all n+1
   invocations raise a retryable exception, and always terminates *)
C15_BoundedRetries ==
    /\ []RetryBudget
    /\ (wrapper_pc = "try") ~> (wrapper_pc = "done")

(* a call with at least two retries was exhausted and raised the exception of
   its last invocation *)
C15_Witness ==
    /\ Exhausted
    /\ retry_config.max_retries >= 2
    /\ outcome = Raise(ExceptionObject("ValueError", retry_config.max_retries + 1))

(* the delay that is due before retry number i + 1 *)
DueDelay(i) ==
    IF retry_config.base_delay * (2 ^ i) <= retry_config.max_delay
    THEN retry_config.base_delay * (2 ^ i)
    ELSE retry_config.max_delay

(* C16: there is one sleep after every failed attempt that is followed by
   another attempt and no other sleep, the sleep before retry number i + 1
   lasts min(base_delay * 2^i, max_delay), and an exhausted call has slept
   exactly max_retries times *)
C16_BackoffSchedule ==
    /\ wrapper_pc = "try" => Len(sleeps) = Len(invocations)
    /\ wrapper_pc \in {"sleep", "raise", "done"} => Len(sleeps) = Len(invocations) - 1
    /\ \A i \in DOMAIN sleeps :
          /\ sleeps[i] = DueDelay(i - 1)
          /\ sleeps[i] <= retry_config.max_delay
    /\ Exhausted => Len(sleeps) = retry_config.max_retries

(* an exhausted call slept before each of its three retries, the last two
   times for the capped delay *)
C16_Witness ==
    /\ Exhausted
    /\ Len(sleeps) = 3
    /\ retry_config.base_delay * 2 > retry_config.max_delay
    /\ sleeps[2] = retry_config.max_delay
    /\ sleeps[3] = retry_config.max_delay

----------------------------------------------------------------------------
(* get_embeddings *)

IsGetEmbeddings == op = "get_embeddings"

(* the concatenation of a sequence of sequences *)
RECURSIVE Concat(_)
Concat(seqs) == IF seqs = <<>> THEN <<>> ELSE Head(seqs) \o Concat(Tail(seqs))

(* C17: provider.embed is called on consecutive slices of at most batch_size
   texts that partition the list in order, once when n <= batch_size and
   ceil(n / batch_size) times otherwise, and the rows returned are those of
   the calls in order: n rows, equal row for row to one unbatched call *)
C17_BatchingEquivalence ==
    IsGetEmbeddings =>
        LET texts == args.texts
            b == args.batch_size
            n == Len(texts)
            calls == ret.value.calls
            rows == ret.value.rows
        IN  /\ Concat(calls) = texts
            /\ \A i \in DOMAIN calls : Len(calls[i]) <= b
            /\ Len(calls) = IF n <= b THEN 1 ELSE (n + b - 1) \div b
            /\ rows = Concat([i \in DOMAIN calls |->
                                 [j \in DOMAIN calls[i] |-> EmbedText(calls[i][j])]])
            /\ Len(rows) = n
            /\ \A i \in 1..n : rows[i] = EmbedText(texts[i])

(* four texts with different embeddings went out in batches of 3 and 1 *)
C17_Witness ==
    /\ IsGetEmbeddings
    /\ Len(args.texts) = 4
    /\ args.batch_size = 3
    /\ Len(ret.value.calls) = 2
    /\ Len(ret.value.calls[2]) = 1
    /\ EmbedText(args.texts[3]) # EmbedText(args.texts[4])

----------------------------------------------------------------------------
(* PineconeVectorStore.search *)

PineconeDone == pinecone_pc = "done"

(* C18: a search issues at most two queries; a failed first query is followed
   by one delay of the fixed length and one retry; a failed second query
   propagates; a successful query is the last one and its matches are what
   the call returns *)
C18_RetryOnce ==
    LET n == Len(pinecone_queries)
        failed(i) == pinecone_queries[i].kind = "raise"
    IN  /\ n <= 2
        /\ \A i \in DOMAIN pinecone_sleeps : pinecone_sleeps[i] = 2
        /\ Len(pinecone_sleeps) = IF n >= 1 /\ failed(1) /\ (n = 2 \/ pinecone_pc = "query")
                                  THEN 1 ELSE 0
        /\ (n = 1 /\ failed(1)) => pinecone_pc \in {"sleep", "query"}
        /\ \A i \in 1..n : ~failed(i) =>
              /\ i = n
              /\ PineconeDone
              /\ pinecone_ret.kind = "return"
              /\ Len(pinecone_ret.value) = Len(pinecone_queries[i].value)
              /\ \A j \in DOMAIN pinecone_ret.value :
                    /\ pinecone_ret.value[j].id = pinecone_queries[i].value[j].id
                    /\ pinecone_ret.value[j].score = pinecone_queries[i].value[j].score
        /\ (n = 2 /\ failed(2)) =>
              /\ PineconeDone
              /\ pinecone_ret = pinecone_queries[2]

(* the first query failed, the call slept once, and the second query's match
   was returned *)
C18_Witness ==
    /\ PineconeDone
    /\ Len(pinecone_queries) = 2
    /\ pinecone_queries[1].kind = "raise"
    /\ pinecone_sleeps = <<2>>
    /\ pinecone_ret.kind = "return"
    /\ Len(pinecone_ret.value) = 1

----------------------------------------------------------------------------
(* Concurrent searches *)

(* the results thread t has returned are results that the same search, run
   alone on the store, can return *)
ReturnsAsAlone(t) ==
    threads[t].pc = "done"
        => threads[t].results
              \in search(Store, threads[t].q, threads[t].top_k, threads[t].filters)

(* C19: no step of a search changes the index, the id list, the metadata map
   or the tombstone set, and however the searches of the threads interleave,
   each returns what it can return when it runs alone *)
C19_PureConcurrentReads ==
    /\ [](\A t \in ThreadIds : ReturnsAsAlone(t))
    /\ [][UNCHANGED <<index, ids, metadata, deleted_ids>>]_vars

(* a search that ran while another thread was inside search has returned a
   result from a store with a tombstone, and another search is in its loop *)
C19_Witness ==
    \E t, u \in ThreadIds :
        /\ t # u
        /\ threads[t].pc = "done"
        /\ threads[t].overlapped
        /\ Len(threads[t].results) >= 1
        /\ deleted_ids # {}
        /\ threads[u].pc = "scan"
        /\ threads[u].i >= 2

----------------------------------------------------------------------------
(* C20 *)

(* the entry review_contract owes clause i once the fan-out is over: the
   not-covered entry for a clause without a playbook position, the review's
   own result when it returned, the fallback entry when it raised *)
EntryOwed(i) ==
    IF ~HasPlaybookPosition(clauses[i]) THEN NotCoveredEntry(clauses[i])
    ELSE IF futures[i].state = "returned" THEN futures[i].result.value
    ELSE FailedEntry(clauses[i])

ReviewSettled ==
    /\ Len(clause_analyses) = Len(clauses)
    /\ \A i \in DOMAIN futures : futures[i].state \in {"returned", "raised"}
    /\ \A i \in DOMAIN clauses :
          /\ clause_analyses[i] # NoAnalysis
          /\ clause_analyses[i] = EntryOwed(i)
          /\ clause_analyses[i].position_in_contract = clauses[i].position

(* an entry that has been assigned during the fan-out is not assigned again *)
AssignedOnce ==
    review_pc = "collect" =>
        \A i \in DOMAIN clause_analyses :
            clause_analyses[i] # NoAnalysis => clause_analyses'[i] = clause_analyses[i]

(* C20: the parallel clause reviews of review_contract are independent: no
   step of the fan-out writes the retrieval state (index, ids, metadata,
   tombstones, fingerprint, files), and in whatever order the reviews complete
   or fail, clause_analyses ends with exactly one non-null entry per extracted
   clause at that clause's own index, a failed review being replaced by the
   fallback entry while the other clauses keep their own entries. *)
C20_IndependentReviews ==
    /\ [](review_pc = "done" => ReviewSettled)
    /\ [][AssignedOnce]_vars
    /\ [][UNCHANGED <<index, ids, metadata, deleted_ids, content_hash, disk>>]_vars

(* a contract whose first clause has no playbook position and whose two
   reviews completed in the reverse of their submission order, the first
   failing and the second returning *)
C20_Witness ==
    /\ review_pc = "done"
    /\ Len(clauses) = 3
    /\ ~HasPlaybookPosition(clauses[1])
    /\ DOMAIN futures = {2, 3}
    /\ futures[2].state = "raised"
    /\ futures[3].state = "returned"
    /\ completions = <<3, 2>>
    /\ clause_analyses[2] = FailedEntry(clauses[2])
    /\ clause_analyses[3] = futures[3].result.value

----------------------------------------------------------------------------
(* C21, C22, C23 *)

IsNormalize == op = "normalize_document"

(* all five required fields present and non-empty, source and doc_type in
   their allow-lists *)
PassesValidation(doc) ==
    /\ REQUIRED_FIELDS \subseteq DOMAIN doc
    /\ \A f \in REQUIRED_FIELDS : doc[f] \notin {"", PyNone}
    /\ doc.source \in VALID_SOURCES
    /\ doc.doc_type \in VALID_DOC_TYPES

(* C21: normalize_document is idempotent: for a document that passes
   validate_document, normalizing the normalized document gives the normalized
   document again. *)
C21_NormalizeIdempotent ==
    (IsNormalize /\ PassesValidation(args.doc)) => ret.value.twice = ret.value.once

(* a valid document with metadata keys outside the fixed set and with an
   optional field that the first pass had to default *)
C21_Witness ==
    /\ IsNormalize
    /\ PassesValidation(args.doc)
    /\ "metadata" \in DOMAIN args.doc
    /\ "extra" \in DOMAIN args.doc.metadata
    /\ ret.value.once.metadata["category"] = PyNone
    /\ ret.value.once.metadata["clause_type"] = "NDA"
    /\ ret.value.twice = ret.value.once

(* C22: normalize_document leaves the document it is given, metadata included,
   as it was, and the document it returns has a metadata mapping over exactly
   the keys clause_type, category, risk_level, notes, practice_area,
   jurisdiction, citation and position, each with the value of the source
   metadata when the source has the key and None otherwise. *)
C22_NormalizeFrame ==
    IsNormalize =>
        LET fixed == {"clause_type", "category", "risk_level", "notes",
                      "practice_area", "jurisdiction", "citation", "position"}
            given == IF "metadata" \in DOMAIN args.doc THEN args.doc.metadata ELSE EmptyDict
            result == ret.value.once
        IN  /\ ret.value.doc_after = args.doc
            /\ DOMAIN result.metadata = fixed
            /\ \A key \in fixed :
                  result.metadata[key] = IF key \in DOMAIN given THEN given[key] ELSE PyNone

(* a document whose metadata has one of the fixed keys, none of the others and
   a key outside the set: the result has the eight keys and the input still has
   its three *)
C22_Witness ==
    /\ IsNormalize
    /\ "metadata" \in DOMAIN args.doc
    /\ DOMAIN args.doc.metadata = {"clause_type", "risk_level", "extra"}
    /\ ret.value.doc_after.metadata = args.doc.metadata
    /\ Cardinality(DOMAIN ret.value.once.metadata) = 8
    /\ ret.value.once.metadata["clause_type"] = "NDA"
    /\ ret.value.once.metadata["notes"] = PyNone

IsIngest == op = "ingest"

(* the normalized forms of the documents of docs that pass validation, in the
   order of docs *)
NormalizedValid(docs) ==
    LET passing == SelectSeq(docs, PassesValidation)
    IN  [i \in DOMAIN passing |-> normalize_document(passing[i])]

(* C23: BaseIngestor.ingest does not raise because of an invalid document: it
   returns, in input order, exactly the normalized forms of the transformed
   documents that pass validation, skipping every other document and going on
   with the documents after it. *)
C23_IngestSkipsInvalid ==
    IsIngest =>
        /\ ret.kind = "return"
        /\ ret.value.valid_docs = NormalizedValid(args.docs)
        /\ ret.value.error_count + Len(ret.value.valid_docs) = Len(args.docs)

(* an invalid document followed by a valid one: the valid one is returned *)
C23_Witness ==
    /\ IsIngest
    /\ Len(args.docs) = 2
    /\ ~PassesValidation(args.docs[1])
    /\ PassesValidation(args.docs[2])
    /\ ret.value.error_count = 1
    /\ ret.value.valid_docs = <<normalize_document(args.docs[2])>>

----------------------------------------------------------------------------
(* C24 *)

(* no stored document has, for every key of the filter, the filter's value *)
NothingMatches(filters) ==
    /\ ~filters.isNone
    /\ DOMAIN filters.items # {}
    /\ \A id \in DOMAIN metadata :
          \E k \in DOMAIN filters.items :
              k \notin DOMAIN metadata[id] \/ metadata[id][k] # filters.items[k]

(* C24: FaissVectorStore.search returns the empty list, and does not raise,
   when there is nothing to return: on a store that was never upserted or
   loaded, and on a built store none of whose documents matches the filter. *)
C24_EmptySearch ==
    (op = "search" /\ (built_by = "none" \/ NothingMatches(args.filters)))
        => ret = Return(<<>>)

(* a filtered search of a built store of two documents, none of which
   matches the filter *)
C24_Witness ==
    /\ op = "search"
    /\ built_by = "upsert"
    /\ index.built
    /\ Len(ids) = 2
    /\ NothingMatches(args.filters)
    /\ ret = Return(<<>>)

----------------------------------------------------------------------------
(* C25 *)

(* FaissVectorStore.delete returns the number of listed ids that were in the
   store and not tombstoned before the call *)
FaissDeleteCount ==
    op' = "delete" =>
        ret'.value = Cardinality((Range(args'.ids) \cap Range(ids)) \ deleted_ids)

(* PineconeVectorStore.delete returns the number of listed ids the index held *)
PineconeDeleteCount ==
    op' = "pinecone_delete" =>
        ret'.value.count = Cardinality(Range(args'.ids) \cap args'.remote)

C25_FaissDeleteCount == [][FaissDeleteCount]_vars

(* C25: on both backends delete(ids) returns the number of vectors it deleted:
   an id that is not in the store or was deleted before counts 0, and an id
   listed twice counts once. *)
C25_DeleteCount == [][FaissDeleteCount /\ PineconeDeleteCount]_vars

----------------------------------------------------------------------------
(* C26 *)

(* the call that just returned wrote the artifacts for its documents *)
JustPersisted ==
    /\ op \in {"ingest_all", "load_documents"}
    /\ ret.kind = "return"
    /\ saved.taken
    /\ saved.documents = args.documents
    /\ saved.store = Store
    /\ op = "load_documents" => ~ret.value.reused

(* C26 for load_documents alone: what load_documents(D, index_path) persists
   carries the fingerprint of D *)
C26_LoadDocumentsFingerprint ==
    (JustPersisted /\ op = "load_documents") =>
        disk.meta_file.content.content_hash = JsonDumpHash(ContentHash(args.documents))

(* C26: every persisted index artifact carries the content fingerprint of the
   corpus it was built from: after ingest_all.main builds and saves an index
   for D, or after load_documents(D, index_path) does, the side-car's
   content_hash is the fingerprint load_documents computes for D, and a later
   load_documents over the same D and path reuses the persisted index. *)
C26_ArtifactsCarryFingerprint ==
    /\ [](JustPersisted =>
            disk.meta_file.content.content_hash = JsonDumpHash(ContentHash(args.documents)))
    /\ [][(/\ saved.taken
           /\ op' = "load_documents"
           /\ ret'.kind = "return"
           /\ args'.documents = saved.documents) => ret'.value.reused]_vars

----------------------------------------------------------------------------
(* C27 *)

(* the score of physical row i for the query of the search *)
RowScore(i) == Dot(args.q, index.vecs[i])

(* the rows among the 5 * top_k highest-scoring physical rows that are not
   tombstoned and carry every key of the filter with the filter's value *)
WindowSurvivors ==
    {i \in DOMAIN ids :
        /\ Cardinality({h \in DOMAIN ids : RowScore(h) > RowScore(i)}) < 5 * args.top_k
        /\ ids[i] \notin deleted_ids
        /\ \A k \in DOMAIN args.filters.items :
              k \in DOMAIN metadata[ids[i]] /\ metadata[ids[i]][k] = args.filters.items[k]}

(* C27: a filtered search returns exactly the first top_k, in descending score
   order, of the non-tombstoned entries matching the filter among the
   5 * top_k highest-scoring physical entries, or all of them when they are
   fewer; a matching entry ranked outside that window is never returned. *)
C27_FilteredWindow ==
    (IsSearch /\ ~args.filters.isNone /\ DOMAIN args.filters.items # {}) =>
        /\ Len(ret.value) =
              IF Cardinality(WindowSurvivors) < args.top_k
              THEN Cardinality(WindowSurvivors) ELSE args.top_k
        /\ \A j \in DOMAIN ret.value :
              \E i \in WindowSurvivors :
                  /\ Cardinality({h \in WindowSurvivors : RowScore(h) > RowScore(i)}) = j - 1
                  /\ ret.value[j].id = ids[i]
                  /\ ret.value[j].score = RowScore(i)
                  /\ ret.value[j].metadata = metadata[ids[i]]

(* a search with top_k = 1 returned nothing although a live document matching
   the filter is in the store: it ranks sixth, and the only match of the window
   is tombstoned *)
C27_Witness ==
    /\ IsSearch
    /\ args.top_k = 1
    /\ ~args.filters.isNone
    /\ DOMAIN args.filters.items # {}
    /\ ret.value = <<>>
    /\ \E i \in DOMAIN ids :
          /\ ids[i] \notin deleted_ids
          /\ \A k \in DOMAIN args.filters.items :
                k \in DOMAIN metadata[ids[i]] /\ metadata[ids[i]][k] = args.filters.items[k]
          /\ Cardinality({h \in DOMAIN ids : RowScore(h) > RowScore(i)}) = 5
    /\ \E i \in DOMAIN ids :
          /\ ids[i] \in deleted_ids
          /\ Cardinality({h \in DOMAIN ids : RowScore(h) > RowScore(i)}) < 5

----------------------------------------------------------------------------
(* C28 *)

(* C28: the knowledge base behind get_db is built at most once per process:
   in any interleaving of concurrent first requests load_clause_database is
   called exactly once, and every request receives the same db object. *)
C28_BuiltOnce ==
    /\ builds <= 1
    /\ \A r, s \in RequestIds :
          (requests[r].pc = "done" /\ requests[s].pc = "done")
              => requests[r].received = requests[s].received

(* C28 for requests that do not overlap the first one: once a get_db call has
   returned, no later call builds *)
C28_BuiltOnceAfterFirst ==
    [][(\E r \in RequestIds : requests[r].pc = "done" /\ db # 0)
          /\ (\A r \in RequestIds : requests[r].pc \in {"idle", "done"})
          => builds' = builds]_vars

----------------------------------------------------------------------------
(* C29 *)

(* C29: a load that does not succeed (it returns False or fails) leaves the
   store as it was: index, id list, metadata map, tombstone set and stored
   content hash are what they were before the call. *)
C29_FailedLoadKeepsState ==
    [][(op' = "load" /\ ret' # Return(TRUE))
          => UNCHANGED <<index, ids, metadata, deleted_ids, content_hash>>]_vars

(* C29 for a load that finds an artifact missing: it returns False and the
   store stays as it was *)
C29_MissingArtifactKeepsState ==
    [][(op' = "load" /\ (~disk.index_file.exists \/ ~disk.meta_file.exists))
          => /\ ret' = Return(FALSE)
             /\ UNCHANGED <<index, ids, metadata, deleted_ids, content_hash>>]_vars

----------------------------------------------------------------------------
(* C30 *)

(* the step is a load_documents call that returns and directly follows a
   returned load_documents call with the same documents *)
SecondOfTwoCalls ==
    /\ IsLoadDocuments
    /\ op' = "load_documents"
    /\ ret'.kind = "return"
    /\ args'.documents = args.documents

(* C30: of two consecutive load_documents calls with the same documents and
   the same index_path, the first embeds, upserts and saves unless it could
   itself reuse a persisted index, and the second loads the persisted index
   and returns it without an embed call, an upsert or a save; its store gives
   the same search results as the first call's store. *)
C30_BuildThenReuse ==
    [][SecondOfTwoCalls =>
          /\ ~ret.value.reused => ret.value.embedded = Len(args.documents)
          /\ ret'.value.loaded
          /\ ret'.value.reused
          /\ ret'.value.embedded = 0
          /\ disk' = disk
          /\ saved' = saved
          /\ <<index, ids, metadata, deleted_ids>>' = <<index, ids, metadata, deleted_ids>>
          /\ \A q \in Queries, top_k \in TopKs, filters \in FilterArgs :
                search(Store', q, top_k, filters) = search(Store, q, top_k, filters)]_vars

(* a store of two documents that load_documents took from the artifacts a
   load_documents call with the same documents had saved *)
C30_Witness ==
    /\ IsLoadDocuments
    /\ Len(args.documents) = 2
    /\ ret.value.loaded
    /\ ret.value.reused
    /\ ret.value.embedded = 0
    /\ built_by = "load"
    /\ saved.taken
    /\ saved.documents = args.documents
    /\ ret.value.stored_hash = ContentHash(args.documents)
    /\ ids = saved.store.ids

====
